---------------------------- MODULE Spec2Model ----------------------------
(***************************************************************************)
(* A model of the tagged-resource cleanup of cleanup_tagged_resources.py:  *)
(* identifier parsing (parse_arn), the nine deletion handlers with the     *)
(* provider calls each one issues, tag-based discovery, and the            *)
(* handler-outer / identifier-inner sweep of delete_resources; and of the  *)
(* repository's other parts, each under a specification of its own: the    *)
(* provisioning helpers and invoke_agent_helper of agent.py, the chatbot   *)
(* script, the notebook's model selector, and the agent runtime            *)
(* entrypoint with its retry decorator.                                    *)
(*                                                                         *)
(* Python strings are sequences of one-character strings, so that          *)
(* splitting, joining and prefix matching are computed, not assumed.       *)
(***************************************************************************)
EXTENDS Integers, Sequences, FiniteSets, TLC

VARIABLES
    \* ---- the sweep (specifications Spec, SpecCollection) ----
    world,      \* the provider's state: which resources and sub-resources exist
    tagQueryRoles, \* environment: does the generic tag query also return roles
    arns,       \* the identifier list handed to delete_resources
    pc,         \* "idle" | "sweeping" | "done" | "raised"
    hi,         \* index of the current handler in delete_actions (outer loop)
    ai,         \* index of the current identifier in arns (inner loop)
    run,        \* number of sweeps started so far
    started,    \* how the current sweep got its list: "discover" | "rerun"
    faults,     \* provider faults injected so far (other than not-found)
    log,        \* provider calls issued during the current sweep, in order
    invoked,    \* <<handler index, identifier index>> of each handler call so far
    \* ---- identifier classification (specification SpecParse) ----
    input,      \* the identifier under classification
    ppc,        \* "input" | "parsed" | "classified"
    parsed,     \* what parse_arn returned (or the exception it raised)
    fired,      \* the handlers whose match condition accepted the parsed pair
    \* ---- discovery on its own (specification SpecDiscover) ----
    dTagged,    \* the tag sets of the account's resources the tag query covers
    dRoles,     \* the tag sets of the account's roles, in list_roles order
    dPageSize,  \* how many items the provider puts on a page
    dpc,        \* "off" | "ready" | "returned" | "raised"
    dFail,      \* the request of each source the provider failed (0: none)
    dOut,       \* what get_tagged_resources returned and printed
    \* ---- agent provisioning (specification SpecProvision) ----
    iam,        \* the account's roles, policies, attachments and functions
    held,       \* the descriptors the caller holds from earlier helper calls
    ret,        \* the last helper call: its name, outcome and return value
    \* ---- the chatbot session (specification SpecChat) ----
    ss,         \* st.session_state: the keys set and their values
    selModel,   \* the model the selectbox shows
    cpc,        \* "off" | "new" (page not yet loaded) | "shown"
    lastPrompt, \* the agent and the selection when a prompt was last processed
    \* ---- the notebook's model selectors (specification SpecSelector) ----
    sel,        \* the selector the notebook built last, and how it was built
    \* ---- invoke_agent_helper (specification SpecInvoke) ----
    stream,     \* the completion stream the agent runtime answers with
    enableTrace, \* the enable_trace argument
    answer,     \* how the call ended: what it returned or raised, what it read
    ipc,        \* "off" | "ready" | "done"
    \* ---- the agent runtime entrypoint (specification SpecRetry) ----
    payload,    \* the payload the entrypoint was invoked with
    rpc,        \* "off" | "idle" | "calling" | "returned" | "raised"
    attempt_number, \* the attempt call_agent is at (1 for the first)
    clock,      \* milliseconds since call_agent started
    calls,      \* the agent invocations so far: input, start time, outcome
    result      \* what the entrypoint returned or raised

sweepVars == <<world, tagQueryRoles, arns, pc, hi, ai, run, started, faults,
               log, invoked>>
parseVars == <<input, ppc, parsed, fired>>
discoverVars == <<dTagged, dRoles, dPageSize, dpc, dFail, dOut>>
provisionVars == <<iam, held, ret>>
chatVars == <<ss, selModel, cpc, lastPrompt>>
selectorVars == <<sel>>
invokeVars == <<stream, enableTrace, answer, ipc>>
retryVars == <<payload, rpc, attempt_number, clock, calls, result>>
toolVars == <<selectorVars, invokeVars, retryVars>>
vars == <<sweepVars, parseVars, discoverVars, provisionVars, chatVars, toolVars>>

\* What the actions of one part leave alone.
notSweep == <<parseVars, discoverVars, provisionVars, chatVars, toolVars>>
notParse == <<sweepVars, discoverVars, provisionVars, chatVars, toolVars>>
notDiscover == <<sweepVars, parseVars, provisionVars, chatVars, toolVars>>
notProvision == <<sweepVars, parseVars, discoverVars, chatVars, toolVars>>
notSelector == <<sweepVars, parseVars, discoverVars, provisionVars, chatVars,
                 invokeVars, retryVars>>
notInvoke == <<sweepVars, parseVars, discoverVars, provisionVars, chatVars,
               selectorVars, retryVars>>
notRetry == <<sweepVars, parseVars, discoverVars, provisionVars, chatVars,
              selectorVars, invokeVars>>
notChat == <<sweepVars, parseVars, discoverVars, provisionVars, toolVars>>

----------------------------------------------------------------------------
(* Bounds of the model.                                                    *)

MaxRawLen == 8      \* longest identifier drawn from the raw alphabet
MaxTailLen == 2     \* longest free tail after a handler prefix
MaxRes == 2         \* most resources that carry the tag at once
MaxFaults == 1      \* most injected provider faults in a behaviour
MaxRuns == 2        \* most sweeps in a behaviour
MaxSecPolicies == 1 \* most security policies of one type on a collection
MaxAccessPolicies == 2 \* most data access policies on a collection
MaxDataSources == 2 \* most data sources of a knowledge base
MaxPages == 2       \* most pages of a bucket's object listing
MaxRoleParts == 1   \* most attached policies, inline policies, profiles of a role
MaxVersions == 2    \* most non-default versions of a policy
MaxGeneric == 2     \* most resources the generic tag query covers
MaxRoles == 2       \* most roles of the account
MaxPageSize == 2    \* most items on a page of a listing
MaxPrompts == 2     \* most prompts in the chat history at once
MaxTraces == 2      \* most trace events ahead of a stream's first other item
MaxBytes == 2       \* most bytes of a chunk
MaxTail == 1        \* most items of a stream after its first non-trace item
MaxCallSecs == 2    \* longest agent invocation, in seconds

----------------------------------------------------------------------------
(* Text.                                                                   *)

Colon == ":"
Newline == "\n"

StartsWith(s, p) ==
    Len(s) >= Len(p) /\ SubSeq(s, 1, Len(p)) = p

DropN(s, n) == SubSeq(s, n + 1, Len(s))

RECURSIVE SplitAcc(_, _, _)
SplitAcc(s, cur, acc) ==
    IF s = <<>> THEN Append(acc, cur)
    ELSE IF Head(s) = Colon
         THEN SplitAcc(Tail(s), <<>>, Append(acc, cur))
         ELSE SplitAcc(Tail(s), Append(cur, Head(s)), acc)

\* str.split(":"): one more segment than there are colons.
split(s) == SplitAcc(s, <<>>, <<>>)

RECURSIVE join(_)
\* ":".join(parts)
join(parts) ==
    IF parts = <<>> THEN <<>>
    ELSE IF Len(parts) = 1 THEN parts[1]
    ELSE parts[1] \o <<Colon>> \o join(Tail(parts))

RECURSIVE DotPlus(_)
\* What the greedy group (.+) takes from the text: "." matches no newline.
DotPlus(s) ==
    IF s = <<>> \/ Head(s) = Newline THEN <<>>
    ELSE <<Head(s)>> \o DotPlus(Tail(s))

\* re.match(r"^<prefix>(.+)", resource): ok and group(1).
re_match(prefix, resource) ==
    IF StartsWith(resource, prefix) /\ DotPlus(DropN(resource, Len(prefix))) # <<>>
    THEN [ok |-> TRUE, group |-> DotPlus(DropN(resource, Len(prefix)))]
    ELSE [ok |-> FALSE, group |-> <<>>]

RECURSIVE ReplaceAll(_, _)
\* s.replace(p, ""), p non-empty: every occurrence removed, left to right.
ReplaceAll(s, p) ==
    IF s = <<>> THEN <<>>
    ELSE IF StartsWith(s, p) THEN ReplaceAll(DropN(s, Len(p)), p)
    ELSE <<Head(s)>> \o ReplaceAll(Tail(s), p)

----------------------------------------------------------------------------
(* Literals of the source.                                                 *)

P_guardrail == <<"g", "u", "a", "r", "d", "r", "a", "i", "l", "/">>
P_collection == <<"c", "o", "l", "l", "e", "c", "t", "i", "o", "n", "/">>
P_knowledgebase ==
    <<"k", "n", "o", "w", "l", "e", "d", "g", "e", "-", "b", "a", "s", "e", "/">>
P_function == <<"f", "u", "n", "c", "t", "i", "o", "n", ":">>
P_role == <<"r", "o", "l", "e", "/">>
P_policy == <<"p", "o", "l", "i", "c", "y", "/">>
P_table == <<"t", "a", "b", "l", "e", "/">>
P_agent == <<"a", "g", "e", "n", "t", "/">>
P_service_role == <<"s", "e", "r", "v", "i", "c", "e", "-", "r", "o", "l", "e", "/">>

S_aoss == <<"a", "o", "s", "s">>
S_bedrock == <<"b", "e", "d", "r", "o", "c", "k">>
S_s3 == <<"s", "3">>
S_iam == <<"i", "a", "m">>
S_lambda == <<"l", "a", "m", "b", "d", "a">>
S_dynamodb == <<"d", "y", "n", "a", "m", "o", "d", "b">>
S_sns == <<"s", "n", "s">>

----------------------------------------------------------------------------
(* parse_arn.                                                              *)

IndexError == [err |-> "IndexError", service |-> <<>>, resource |-> <<>>]

\* parse_arn with a seeded fault: only the sixth segment is kept as the
\* resource.
parse_arn_sixth_only(arn) ==
    LET parts == split(arn) IN
    IF Len(parts) < 3 THEN IndexError
    ELSE [err |-> "", service |-> parts[3],
          resource |-> IF Len(parts) >= 6 THEN parts[6] ELSE <<>>]

\* parts[2] raises IndexError below three segments; parts[5:] is empty below six.
parse_arn(arn) ==
    LET parts == split(arn) IN
    IF Len(parts) < 3 THEN IndexError
    ELSE [err |-> "", service |-> parts[3],
          resource |-> join(SubSeq(parts, 6, Len(parts)))]

----------------------------------------------------------------------------
(* The handlers' match conditions.                                         *)

match_collection(service, resource) ==
    service = S_aoss /\ re_match(P_collection, resource).ok

match_guardrail(service, resource) ==
    service = S_bedrock /\ re_match(P_guardrail, resource).ok

match_knowledgebase(service, resource) ==
    service = S_bedrock /\ re_match(P_knowledgebase, resource).ok

match_bucket(service, resource) ==
    service = S_s3

\* The match of delete_roles with a seeded fault: the pattern is searched for
\* anywhere in the resource (re.search in place of the anchored re.match).
match_roles_unanchored(service, resource) ==
    service = S_iam
    /\ \E k \in 0..Len(resource) : re_match(P_role, DropN(resource, k)).ok

match_roles(service, resource) ==
    service = S_iam /\ re_match(P_role, resource).ok

match_policy(service, resource) ==
    service = S_iam /\ re_match(P_policy, resource).ok

match_function(service, resource) ==
    service = S_lambda /\ re_match(P_function, resource).ok

match_table(service, resource) ==
    service = S_dynamodb /\ re_match(P_table, resource).ok

match_agent(service, resource) ==
    service = S_bedrock /\ re_match(P_agent, resource).ok

\* The handler list with a seeded fault: policies are handled before roles.
delete_actions_policy_first ==
    << "delete_guardrail", "delete_collection", "delete_knowledgebase",
       "delete_bucket", "delete_function", "delete_policy", "delete_roles",
       "delete_table", "delete_agent" >>

\* The handler list of delete_resources, in its order.
delete_actions ==
    << "delete_guardrail", "delete_collection", "delete_knowledgebase",
       "delete_bucket", "delete_function", "delete_roles", "delete_policy",
       "delete_table", "delete_agent" >>

Handlers == { delete_actions[k] : k \in 1..Len(delete_actions) }

Matches(h, service, resource) ==
    CASE h = "delete_guardrail" -> match_guardrail(service, resource)
      [] h = "delete_collection" -> match_collection(service, resource)
      [] h = "delete_knowledgebase" -> match_knowledgebase(service, resource)
      [] h = "delete_bucket" -> match_bucket(service, resource)
      [] h = "delete_function" -> match_function(service, resource)
      [] h = "delete_roles" -> match_roles(service, resource)
      [] h = "delete_policy" -> match_policy(service, resource)
      [] h = "delete_table" -> match_table(service, resource)
      [] h = "delete_agent" -> match_agent(service, resource)


----------------------------------------------------------------------------
(* The provider: resources, sub-resources and what each call does.         *)

MkArn(svc, res) ==
    <<"a", ":", "p", ":">> \o svc \o <<":", "r", ":", "1", ":">> \o res

Res(kind, svc, res) == [kind |-> kind, svc |-> svc, res |-> res]

ArnOf(r) == MkArn(r.svc, r.res)

\* The resources that may carry the tag, one of each kind the handlers know.
Universe ==
    { Res("guardrail", S_bedrock, P_guardrail \o <<"g">>),
      Res("collection", S_aoss, P_collection \o <<"c">>),
      Res("knowledgebase", S_bedrock, P_knowledgebase \o <<"k">>),
      Res("bucket", S_s3, <<"b">>),
      Res("function", S_lambda, P_function \o <<"f">>),
      Res("role", S_iam, P_role \o <<"r">>),
      Res("policy", S_iam, P_policy \o <<"p">>),
      Res("table", S_dynamodb, P_table \o <<"t">>),
      Res("agent", S_bedrock, P_agent \o <<"a">>) }

RECURSIVE LastComponent(_)
\* The text after the last "/": a role's name, whatever its path.
LastComponent(s) ==
    IF \A k \in 1..Len(s) : s[k] # "/" THEN s
    ELSE LastComponent(Tail(s))

\* The identifier under which the provider knows a resource in the calls
\* the handlers make: the ARN for guardrails and policies, the bucket name,
\* and otherwise the text after the type prefix.
TrueId(r) ==
    CASE r.kind = "guardrail" -> ArnOf(r)
      [] r.kind = "policy" -> ArnOf(r)
      [] r.kind = "bucket" -> r.res
      [] r.kind = "collection" -> DropN(r.res, Len(P_collection))
      [] r.kind = "knowledgebase" -> DropN(r.res, Len(P_knowledgebase))
      [] r.kind = "function" -> DropN(r.res, Len(P_function))
      [] r.kind = "role" -> LastComponent(r.res)
      [] r.kind = "table" -> DropN(r.res, Len(P_table))
      [] r.kind = "agent" -> DropN(r.res, Len(P_agent))

\* collection['name'] of the collection with this id.
CollectionName(id) == <<"n">> \o id

Sub(kind, parent, type, n) ==
    [kind |-> kind, parent |-> parent, type |-> type, n |-> n]

Exists(w, kind, id) == \E r \in w.live : r.kind = kind /\ TrueId(r) = id

SubsOf(w, kind, parent, type) ==
    { s \in w.subs : s.kind = kind /\ s.parent = parent /\ s.type = type }

SubsOfKind(w, kind, parent) ==
    { s \in w.subs : s.kind = kind /\ s.parent = parent }

\* The version of a policy that is its default version: the first one.
DefaultVersion == 1

RECURSIVE Sorted(_)
\* A finite set of numbers as an ascending sequence.
Sorted(S) ==
    IF S = {} THEN <<>>
    ELSE LET m == CHOOSE x \in S : \A y \in S : x <= y
         IN <<m>> \o Sorted(S \ {m})

\* A provider call as a handler issues it.  guarded: inside a
\* try/except ClientError of the handler.
Call(op, id, type, n, guarded) ==
    [op |-> op, id |-> id, type |-> type, n |-> n, guarded |-> guarded]

\* What each operation needs and removes: parent is the kind of resource
\* that must exist, sub the kind of sub-resource that must exist, del what
\* a successful call removes.
OpInfo(op) ==
    CASE op = "batch_get_collection" -> [parent |-> "", sub |-> "", del |-> "none"]
      [] op = "list_security_policies" -> [parent |-> "", sub |-> "", del |-> "none"]
      [] op = "delete_security_policy" -> [parent |-> "", sub |-> "secpol", del |-> "sub"]
      [] op = "list_access_policies" -> [parent |-> "", sub |-> "", del |-> "none"]
      [] op = "delete_access_policy" -> [parent |-> "", sub |-> "accpol", del |-> "sub"]
      [] op = "delete_collection" -> [parent |-> "collection", sub |-> "", del |-> "parent"]
      [] op = "delete_guardrail" -> [parent |-> "guardrail", sub |-> "", del |-> "parent"]
      [] op = "get_knowledge_base" -> [parent |-> "knowledgebase", sub |-> "", del |-> "none"]
      [] op = "list_data_sources" -> [parent |-> "knowledgebase", sub |-> "", del |-> "none"]
      [] op = "get_data_source" -> [parent |-> "knowledgebase", sub |-> "ds", del |-> "none"]
      [] op = "update_data_source" -> [parent |-> "knowledgebase", sub |-> "ds", del |-> "retain"]
      [] op = "delete_data_source" -> [parent |-> "knowledgebase", sub |-> "ds", del |-> "sub"]
      [] op = "delete_knowledge_base" -> [parent |-> "knowledgebase", sub |-> "", del |-> "parent"]
      [] op = "list_objects_v2" -> [parent |-> "bucket", sub |-> "", del |-> "none"]
      [] op = "delete_objects" -> [parent |-> "bucket", sub |-> "object", del |-> "sub"]
      [] op = "delete_bucket" -> [parent |-> "bucket", sub |-> "", del |-> "parent"]
      [] op = "list_attached_role_policies" -> [parent |-> "role", sub |-> "", del |-> "none"]
      [] op = "detach_role_policy" -> [parent |-> "role", sub |-> "attached", del |-> "sub"]
      [] op = "list_role_policies" -> [parent |-> "role", sub |-> "", del |-> "none"]
      [] op = "delete_role_policy" -> [parent |-> "role", sub |-> "inline", del |-> "sub"]
      [] op = "list_instance_profiles_for_role" -> [parent |-> "role", sub |-> "", del |-> "none"]
      [] op = "remove_role_from_instance_profile" -> [parent |-> "role", sub |-> "profile", del |-> "sub"]
      [] op = "delete_role" -> [parent |-> "role", sub |-> "", del |-> "parent"]
      [] op = "list_policy_versions" -> [parent |-> "policy", sub |-> "", del |-> "none"]
      [] op = "delete_policy_version" -> [parent |-> "policy", sub |-> "version", del |-> "sub"]
      [] op = "delete_policy" -> [parent |-> "policy", sub |-> "", del |-> "parent"]
      [] op = "delete_function" -> [parent |-> "function", sub |-> "", del |-> "parent"]
      [] op = "delete_table" -> [parent |-> "table", sub |-> "", del |-> "parent"]
      [] op = "delete_agent" -> [parent |-> "agent", sub |-> "", del |-> "parent"]

\* The calls that remove something when they succeed.
Effectful(op) == OpInfo(op).del \in {"sub", "parent"}

\* The sub-resource a call names.  A data source keeps its identity when
\* its deletion policy changes, so its type is not part of the name.
NamedSubs(w, c) ==
    LET i == OpInfo(c.op) IN
    IF i.sub = "ds" THEN { s \in SubsOfKind(w, "ds", c.id) : s.n = c.n }
    ELSE { s \in SubsOf(w, i.sub, c.id, c.type) : s.n = c.n }

\* The provider's answer to a call: "ok", or "NotFound" when the resource or
\* sub-resource the call names is absent.
Answer(w, c) ==
    LET i == OpInfo(c.op) IN
    IF i.parent # "" /\ ~Exists(w, i.parent, c.id) THEN "NotFound"
    ELSE IF i.sub # "" /\ NamedSubs(w, c) = {} THEN "NotFound"
    ELSE "ok"

\* What a successful listing call returns (the names, as numbers); empty for
\* every other call.
Listing(w, c) ==
    CASE c.op = "list_security_policies" ->
            { s.n : s \in SubsOf(w, "secpol", c.id, c.type) }
      [] c.op = "list_access_policies" ->
            { s.n : s \in SubsOf(w, "accpol", c.id, c.type) }
      [] c.op = "list_data_sources" -> { s.n : s \in SubsOfKind(w, "ds", c.id) }
      [] c.op = "list_objects_v2" ->
            { s.n : s \in { t \in SubsOfKind(w, "object", c.id) : t.n = c.n } }
      [] c.op = "list_attached_role_policies" ->
            { s.n : s \in SubsOfKind(w, "attached", c.id) }
      [] c.op = "list_role_policies" -> { s.n : s \in SubsOfKind(w, "inline", c.id) }
      [] c.op = "list_instance_profiles_for_role" ->
            { s.n : s \in SubsOfKind(w, "profile", c.id) }
      [] c.op = "list_policy_versions" ->
            { s.n : s \in SubsOfKind(w, "version", c.id) }
      [] OTHER -> {}

\* The provider's state after a successful call.
Effect(w, c) ==
    LET i == OpInfo(c.op) IN
    CASE i.del = "none" -> w
      [] i.del = "sub" -> [w EXCEPT !.subs = @ \ NamedSubs(w, c)]
      [] i.del = "retain" ->
            [w EXCEPT !.subs = (@ \ NamedSubs(w, c))
                              \cup {Sub("ds", c.id, "RETAIN", c.n)}]
      [] i.del = "parent" ->
            [w EXCEPT !.live =
                { r \in @ : ~(r.kind = i.parent /\ TrueId(r) = c.id) }]


----------------------------------------------------------------------------
(* The handlers: the provider calls each one issues for an identifier, in  *)
(* order, given what the provider lists.  An empty plan is a no-op.        *)

Ns(S) == Sorted({ s.n : s \in S })

RECURSIVE ForEach(_, _)
\* The calls of a loop body (a function of the item), over the listed items
\* in order.
ForEach(ns, Body) ==
    IF ns = <<>> THEN <<>>
    ELSE Body[Head(ns)] \o ForEach(Tail(ns), Body)

\* delete_collection with a seeded fault: the collection is deleted before
\* its policies are looked at.
plan_collection_delete_first(arn, service, resource, w) ==
    IF ~match_collection(service, resource) THEN <<>>
    ELSE
    LET collection_id == re_match(P_collection, resource).group
        name == CollectionName(collection_id)
        Sec(policy_type) ==
            <<Call("list_security_policies", name, policy_type, 0, FALSE)>>
            \o ForEach(Ns(SubsOf(w, "secpol", name, policy_type)),
                  [n \in Nat |-> <<Call("delete_security_policy", name, policy_type, n, FALSE)>>])
    IN <<Call("batch_get_collection", collection_id, "", 0, FALSE)>>
       \o (IF ~Exists(w, "collection", collection_id) THEN <<>>
           ELSE <<Call("delete_collection", collection_id, "", 0, FALSE)>>
                \o Sec("encryption") \o Sec("network")
                \o <<Call("list_access_policies", name, "data", 0, FALSE)>>
                \o ForEach(Ns(SubsOf(w, "accpol", name, "data")),
                      [n \in Nat |-> <<Call("delete_access_policy", name, "data", n, FALSE)>>]))

plan_collection(arn, service, resource, w) ==
    IF ~match_collection(service, resource) THEN <<>>
    ELSE
    LET collection_id == re_match(P_collection, resource).group
        name == CollectionName(collection_id)
        Sec(policy_type) ==
            <<Call("list_security_policies", name, policy_type, 0, FALSE)>>
            \o ForEach(Ns(SubsOf(w, "secpol", name, policy_type)),
                  [n \in Nat |-> <<Call("delete_security_policy", name, policy_type, n, FALSE)>>])
    IN <<Call("batch_get_collection", collection_id, "", 0, FALSE)>>
       \o (IF ~Exists(w, "collection", collection_id) THEN <<>>
           ELSE Sec("encryption") \o Sec("network")
                \o <<Call("list_access_policies", name, "data", 0, FALSE)>>
                \o ForEach(Ns(SubsOf(w, "accpol", name, "data")),
                      [n \in Nat |-> <<Call("delete_access_policy", name, "data", n, FALSE)>>])
                \o <<Call("delete_collection", collection_id, "", 0, FALSE)>>)

plan_guardrail(arn, service, resource, w) ==
    IF ~match_guardrail(service, resource) THEN <<>>
    ELSE <<Call("delete_guardrail", arn, "", 0, FALSE)>>

\* delete_knowledgebase with a seeded fault: the deletion policy is updated
\* before the data source is read, so the read separates update and delete.
plan_knowledgebase_update_first(arn, service, resource, w) ==
    IF ~match_knowledgebase(service, resource) THEN <<>>
    ELSE
    LET kb_id == re_match(P_knowledgebase, resource).group IN
    <<Call("get_knowledge_base", kb_id, "", 0, FALSE),
      Call("list_data_sources", kb_id, "", 0, FALSE)>>
    \o ForEach(Ns(SubsOfKind(w, "ds", kb_id)),
          [n \in Nat |-> <<Call("update_data_source", kb_id, "RETAIN", n, FALSE),
                       Call("get_data_source", kb_id, "", n, FALSE),
                       Call("delete_data_source", kb_id, "", n, FALSE)>>])
    \o <<Call("delete_knowledge_base", kb_id, "", 0, FALSE)>>

plan_knowledgebase(arn, service, resource, w) ==
    IF ~match_knowledgebase(service, resource) THEN <<>>
    ELSE
    LET kb_id == re_match(P_knowledgebase, resource).group IN
    <<Call("get_knowledge_base", kb_id, "", 0, FALSE),
      Call("list_data_sources", kb_id, "", 0, FALSE)>>
    \o ForEach(Ns(SubsOfKind(w, "ds", kb_id)),
          [n \in Nat |-> <<Call("get_data_source", kb_id, "", n, FALSE),
                       Call("update_data_source", kb_id, "RETAIN", n, FALSE),
                       Call("delete_data_source", kb_id, "", n, FALSE)>>])
    \o <<Call("delete_knowledge_base", kb_id, "", 0, FALSE)>>

\* The pages the object listing of a bucket has: at least one.
NumPages(w, bucket) ==
    LET ps == { s.n : s \in SubsOfKind(w, "page", bucket) }
    IN IF ps = {} THEN 1 ELSE CHOOSE m \in ps : \A k \in ps : k <= m

\* delete_bucket with a seeded fault: only the first page of the object
\* listing is read and emptied.
plan_bucket_first_page(arn, service, resource, w) ==
    IF ~match_bucket(service, resource) THEN <<>>
    ELSE
    LET bucket_name == resource IN
    <<Call("list_objects_v2", bucket_name, "", 1, FALSE)>>
    \o (IF \E s \in SubsOfKind(w, "object", bucket_name) : s.n = 1
        THEN <<Call("delete_objects", bucket_name, "", 1, FALSE)>>
        ELSE <<>>)
    \o <<Call("delete_bucket", bucket_name, "", 0, FALSE)>>

plan_bucket(arn, service, resource, w) ==
    IF ~match_bucket(service, resource) THEN <<>>
    ELSE
    LET bucket_name == resource IN
    ForEach([k \in 1..NumPages(w, bucket_name) |-> k],
        [n \in Nat |-> <<Call("list_objects_v2", bucket_name, "", n, FALSE)>>
                   \o (IF \E s \in SubsOfKind(w, "object", bucket_name) : s.n = n
                       THEN <<Call("delete_objects", bucket_name, "", n, FALSE)>>
                       ELSE <<>>)])
    \o <<Call("delete_bucket", bucket_name, "", 0, FALSE)>>

\* delete_roles with a seeded fault: the instance-profile step is outside
\* any try block.
plan_roles_no_try(arn, service, resource, w) ==
    IF ~match_roles(service, resource) THEN <<>>
    ELSE
    LET group == re_match(P_role, resource).group
        role_name == IF StartsWith(group, P_service_role)
                     THEN ReplaceAll(group, P_service_role)
                     ELSE group
    IN <<Call("list_attached_role_policies", role_name, "", 0, FALSE)>>
       \o ForEach(Ns(SubsOfKind(w, "attached", role_name)),
             [n \in Nat |-> <<Call("detach_role_policy", role_name, "", n, FALSE)>>])
       \o <<Call("list_role_policies", role_name, "", 0, FALSE)>>
       \o ForEach(Ns(SubsOfKind(w, "inline", role_name)),
             [n \in Nat |-> <<Call("delete_role_policy", role_name, "", n, FALSE)>>])
       \o <<Call("list_instance_profiles_for_role", role_name, "", 0, FALSE)>>
       \o ForEach(Ns(SubsOfKind(w, "profile", role_name)),
             [n \in Nat |-> <<Call("remove_role_from_instance_profile", role_name, "", n, FALSE)>>])
       \o <<Call("delete_role", role_name, "", 0, FALSE)>>

plan_roles(arn, service, resource, w) ==
    IF ~match_roles(service, resource) THEN <<>>
    ELSE
    LET group == re_match(P_role, resource).group
        role_name == IF StartsWith(group, P_service_role)
                     THEN ReplaceAll(group, P_service_role)
                     ELSE group
    IN <<Call("list_attached_role_policies", role_name, "", 0, FALSE)>>
       \o ForEach(Ns(SubsOfKind(w, "attached", role_name)),
             [n \in Nat |-> <<Call("detach_role_policy", role_name, "", n, FALSE)>>])
       \o <<Call("list_role_policies", role_name, "", 0, FALSE)>>
       \o ForEach(Ns(SubsOfKind(w, "inline", role_name)),
             [n \in Nat |-> <<Call("delete_role_policy", role_name, "", n, FALSE)>>])
       \o <<Call("list_instance_profiles_for_role", role_name, "", 0, TRUE)>>
       \o ForEach(Ns(SubsOfKind(w, "profile", role_name)),
             [n \in Nat |-> <<Call("remove_role_from_instance_profile", role_name, "", n, TRUE)>>])
       \o <<Call("delete_role", role_name, "", 0, FALSE)>>

\* delete_policy with a seeded fault: every listed version is deleted, the
\* default version too.
plan_policy_every_version(arn, service, resource, w) ==
    IF ~match_policy(service, resource) THEN <<>>
    ELSE <<Call("list_policy_versions", arn, "", 0, FALSE)>>
         \o ForEach(Ns(SubsOfKind(w, "version", arn)),
               [n \in Nat |-> <<Call("delete_policy_version", arn, "other", n, FALSE)>>])
         \o <<Call("delete_policy", arn, "", 0, FALSE)>>

plan_policy(arn, service, resource, w) ==
    IF ~match_policy(service, resource) THEN <<>>
    ELSE <<Call("list_policy_versions", arn, "", 0, FALSE)>>
         \o ForEach(Ns(SubsOf(w, "version", arn, "other")),
               [n \in Nat |-> <<Call("delete_policy_version", arn, "other", n, FALSE)>>])
         \o <<Call("delete_policy", arn, "", 0, FALSE)>>

plan_function(arn, service, resource, w) ==
    IF ~match_function(service, resource) THEN <<>>
    ELSE <<Call("delete_function", re_match(P_function, resource).group, "", 0, FALSE)>>

\* delete_table with a seeded fault: the delete call is issued twice.
plan_table_twice(arn, service, resource, w) ==
    IF ~match_table(service, resource) THEN <<>>
    ELSE <<Call("delete_table", re_match(P_table, resource).group, "", 0, FALSE),
           Call("delete_table", re_match(P_table, resource).group, "", 0, FALSE)>>

plan_table(arn, service, resource, w) ==
    IF ~match_table(service, resource) THEN <<>>
    ELSE <<Call("delete_table", re_match(P_table, resource).group, "", 0, FALSE)>>

plan_agent(arn, service, resource, w) ==
    IF ~match_agent(service, resource) THEN <<>>
    ELSE <<Call("delete_agent", re_match(P_agent, resource).group, "", 0, FALSE)>>

\* action(arn, service, resource) for the handler named h.
HandlerPlan(h, arn, service, resource, w) ==
    CASE h = "delete_guardrail" -> plan_guardrail(arn, service, resource, w)
      [] h = "delete_collection" -> plan_collection(arn, service, resource, w)
      [] h = "delete_knowledgebase" -> plan_knowledgebase(arn, service, resource, w)
      [] h = "delete_bucket" -> plan_bucket(arn, service, resource, w)
      [] h = "delete_function" -> plan_function(arn, service, resource, w)
      [] h = "delete_roles" -> plan_roles(arn, service, resource, w)
      [] h = "delete_policy" -> plan_policy(arn, service, resource, w)
      [] h = "delete_table" -> plan_table(arn, service, resource, w)
      [] h = "delete_agent" -> plan_agent(arn, service, resource, w)

\* The calls of a plan after position k that are no longer inside the try
\* block a failed guarded call was in.
RECURSIVE AfterTry(_, _)
AfterTry(plan, k) ==
    IF k > Len(plan) \/ ~plan[k].guarded THEN k ELSE AfterTry(plan, k + 1)

\* The errors the provider may answer a call with, whatever its own state:
\* "Fault" stands for every error code other than not-found; "NotFound" is
\* the answer when another actor has removed what the call names.
FaultKinds == {"Fault", "NotFound"}

RECURSIVE Exec(_, _, _, _, _, _, _)
\* Runs plan from position k in provider state w, with the log so far in
\* lg.  failAt is the position of the call the provider fails with the
\* injected error failAs (0: none); tag is the <<handler, identifier>>
\* position.
\* A failed guarded call is swallowed by its except clause and the handler
\* goes on after the try block; any other failed call raises.
Exec(w, plan, k, failAt, failAs, tag, lg) ==
    IF k > Len(plan) THEN [w |-> w, log |-> lg, raised |-> FALSE]
    ELSE
    LET c == plan[k]
        ans == IF k = failAt THEN failAs ELSE Answer(w, c)
        entry == [op |-> c.op, id |-> c.id, type |-> c.type, n |-> c.n,
                  res |-> ans, h |-> tag[1], a |-> tag[2],
                  listed |-> IF ans = "ok" THEN Listing(w, c) ELSE {}]
    IN IF ans = "ok"
       THEN Exec(Effect(w, c), plan, k + 1, failAt, failAs, tag, Append(lg, entry))
       ELSE IF c.guarded
       THEN Exec(w, plan, AfterTry(plan, k), failAt, failAs, tag,
                 Append(lg, entry))
       ELSE [w |-> w, log |-> Append(lg, entry), raised |-> TRUE]


----------------------------------------------------------------------------
(* Discovery: get_tagged_resources over the pages of its two sources.      *)

\* A tag as the provider reports it.
Tag(key, value) == [Key |-> key, Value |-> value]

\* An item of a listing: its identifier and its tags.
Item(arn, tags) == [arn |-> arn, tags |-> tags]

RECURSIVE Pages(_, _)
\* The pages of a paginator over s: at least one page, the last one
\* possibly short or empty.
Pages(s, size) ==
    IF Len(s) <= size THEN <<s>>
    ELSE <<SubSeq(s, 1, size)>> \o Pages(DropN(s, size), size)

RECURSIVE Flatten(_)
Flatten(pages) ==
    IF pages = <<>> THEN <<>> ELSE Head(pages) \o Flatten(Tail(pages))

RECURSIVE Select(_, _, _)
\* The items of s that carry the tag name=value, in order.
Select(s, name, value) ==
    IF s = <<>> THEN <<>>
    ELSE (IF Tag(name, value) \in Head(s).tags THEN <<Head(s)>> ELSE <<>>)
         \o Select(Tail(s), name, value)

\* get_resources with TagFilters: the provider's pages of the items that
\* carry the tag, as ResourceARN lists.
TagQueryPages(items, name, value, size) ==
    LET hits == Select(items, name, value)
    IN Pages([k \in 1..Len(hits) |-> hits[k].arn], size)

RECURSIVE RoleRequests(_)
\* The requests of the role scan in order: each page of list_roles, then
\* list_role_tags for each role of that page.
RoleRequests(pages) ==
    IF pages = <<>> THEN <<>>
    ELSE <<[op |-> "list_roles", role |-> Item(<<>>, {})]>>
         \o [k \in 1..Len(Head(pages)) |->
                [op |-> "list_role_tags", role |-> Head(pages)[k]]]
         \o RoleRequests(Tail(pages))

\* any(...) with a seeded fault: only the key is compared.
any_tag_key_only(tags, name, value) ==
    \E tag \in tags : tag.Key = name

\* any(tag["Key"] == name and tag["Value"] == value for tag in tags)
any_tag(tags, name, value) ==
    \E tag \in tags : tag.Key = name /\ tag.Value = value

RECURSIVE ScanRoles(_, _, _, _, _, _)
\* The role scan from request k on: the identifiers appended so far in acc.
ScanRoles(reqs, k, failRole, name, value, acc) ==
    IF k > Len(reqs) THEN [resources |-> acc, failed |-> FALSE]
    ELSE IF k = failRole THEN [resources |-> acc, failed |-> TRUE]
    ELSE ScanRoles(reqs, k + 1, failRole, name, value,
             IF reqs[k].op = "list_role_tags"
                /\ any_tag(reqs[k].role.tags, name, value)
             THEN Append(acc, reqs[k].role.arn)
             ELSE acc)

E_tagged == "Error finding tagged resources"
E_roles == "Error listing roles"

\* A failed request: its position in the source's requests (0: none) and
\* the exception it raises.  "ClientError" is an error response of the
\* provider; "Other" is any exception that is not a ClientError (no
\* connection, a timeout, no credentials).
Failure(at, kind) == [at |-> at, kind |-> kind]

NoFailure == Failure(0, "none")

ErrorKinds == {"ClientError", "Other"}

\* The failures that can hit a source of n requests.
Failures(n) == {NoFailure} \cup { Failure(k, e) : k \in 1..n, e \in ErrorKinds }

\* get_tagged_resources(name, value), given the pages the two paginators
\* yield, the failure of the tag query (at: a page) and the failure of the
\* role scan (at: a request).  Each source's loop runs inside its own
\* try/except ClientError: a ClientError ends that loop and is printed, with
\* resources as extended so far; any other exception leaves the function.
get_tagged_resources(name, value, tagPages, rolePages, failTag, failRole) ==
    LET read == IF failTag.at = 0 THEN Len(tagPages) ELSE failTag.at - 1
        first == Flatten(SubSeq(tagPages, 1, read))
        scan == ScanRoles(RoleRequests(rolePages), 1, failRole.at, name, value,
                          first)
        printed1 == IF failTag.kind = "ClientError" THEN {E_tagged} ELSE {}
    IN IF failTag.kind = "Other"
       THEN [resources |-> <<>>, printed |-> {}, raised |-> TRUE]
       ELSE IF failRole.kind = "Other"
       THEN [resources |-> <<>>, printed |-> printed1, raised |-> TRUE]
       ELSE [resources |-> scan.resources,
             printed |-> printed1
                         \cup (IF scan.failed THEN {E_roles} ELSE {}),
             raised |-> FALSE]

----------------------------------------------------------------------------
(* Agent provisioning (agent.py): the account as the helpers see it.       *)

NoIam == [roles |-> {}, policies |-> {}, attached |-> {}, functions |-> {}]

\* The policy the provider manages itself: it always exists.
ManagedPolicy == <<"aws", "AWSLambdaBasicExecutionRole">>

RoleArnOf(name) == <<"role", name>>
PolicyArnOf(name) == <<"policy", name>>
FunctionArnOf(name) == <<"function", name>>

PolicyExists(s, arn) == arn = PolicyArnOf(ManagedPolicy) \/ arn[2] \in s.policies

\* A request to the provider: a is the role, policy or function it names,
\* b the policy identifier of an attach or detach.
Req(op, a, b) == [op |-> op, a |-> a, b |-> b]

\* The provider's answer to a request in account state s.
IamAnswer(s, r) ==
    CASE r.op = "create_role" ->
            IF r.a \in s.roles THEN "EntityAlreadyExists" ELSE "ok"
      [] r.op \in {"get_role", "list_attached_role_policies", "list_role_policies"} ->
            IF r.a \in s.roles THEN "ok" ELSE "NoSuchEntity"
      [] r.op = "attach_role_policy" ->
            IF r.a \in s.roles /\ PolicyExists(s, r.b) THEN "ok" ELSE "NoSuchEntity"
      [] r.op = "detach_role_policy" ->
            IF <<r.a, r.b>> \in s.attached THEN "ok" ELSE "NoSuchEntity"
      [] r.op = "create_policy" ->
            IF r.a \in s.policies THEN "EntityAlreadyExists" ELSE "ok"
      [] r.op \in {"get_policy", "list_policy_versions"} ->
            IF r.a[2] \in s.policies THEN "ok" ELSE "NoSuchEntity"
      [] r.op = "delete_policy" ->
            IF r.a[2] \notin s.policies THEN "NoSuchEntity"
            ELSE IF \E x \in s.attached : x[2] = r.a THEN "DeleteConflict"
            ELSE "ok"
      [] r.op = "delete_role" ->
            IF r.a \notin s.roles THEN "NoSuchEntity"
            ELSE IF \E x \in s.attached : x[1] = r.a THEN "DeleteConflict"
            ELSE "ok"
      [] r.op = "create_function" ->
            IF r.a \in s.functions THEN "ResourceConflictException" ELSE "ok"
      [] r.op = "get_function" ->
            IF r.a \in s.functions THEN "ok" ELSE "ResourceNotFoundException"

\* The account after a successful request.
IamEffect(s, r) ==
    CASE r.op = "create_role" -> [s EXCEPT !.roles = @ \cup {r.a}]
      [] r.op = "delete_role" -> [s EXCEPT !.roles = @ \ {r.a}]
      [] r.op = "create_policy" -> [s EXCEPT !.policies = @ \cup {r.a}]
      [] r.op = "delete_policy" -> [s EXCEPT !.policies = @ \ {r.a[2]}]
      [] r.op = "attach_role_policy" -> [s EXCEPT !.attached = @ \cup {<<r.a, r.b>>}]
      [] r.op = "detach_role_policy" -> [s EXCEPT !.attached = @ \ {<<r.a, r.b>>}]
      [] r.op = "create_function" -> [s EXCEPT !.functions = @ \cup {r.a}]
      [] OTHER -> s

RoleBody(name) == [RoleName |-> name, Arn |-> RoleArnOf(name)]
PolicyBody(name) == [PolicyName |-> name, Arn |-> PolicyArnOf(name)]
FunctionConfiguration(name) ==
    [FunctionName |-> name, FunctionArn |-> FunctionArnOf(name)]

\* The body of the provider's response to a successful request that
\* creates or fetches something.
Response(r) ==
    CASE r.op \in {"create_role", "get_role"} -> [Role |-> RoleBody(r.a)]
      [] r.op = "create_policy" -> [Policy |-> PolicyBody(r.a)]
      [] r.op = "get_policy" -> [Policy |-> PolicyBody(r.a[2])]
      [] r.op = "create_function" -> FunctionConfiguration(r.a)
      [] r.op = "get_function" ->
            [Configuration |-> FunctionConfiguration(r.a), Code |-> "Location"]

\* A helper call in progress: the account, the requests issued so far, and
\* the exception that is propagating ("": none).
Run(s) == [iam |-> s, issued |-> <<>>, err |-> ""]

\* The next request of a helper.  Nothing is issued while an exception
\* propagates; failAt is the number of the request the provider fails with
\* an error the helper does not name (0: none).
Issue(st, r, failAt) ==
    IF st.err # "" THEN st
    ELSE LET ans == IF Len(st.issued) + 1 = failAt THEN "Fault"
                    ELSE IamAnswer(st.iam, r)
         IN [iam |-> IF ans = "ok" THEN IamEffect(st.iam, r) ELSE st.iam,
             issued |-> Append(st.issued, [op |-> r.op, a |-> r.a, ans |-> ans]),
             err |-> IF ans = "ok" THEN "" ELSE ans]

\* An except clause for the exceptions in kinds.
Except(st, kinds) == IF st.err \in kinds THEN [st EXCEPT !.err = ""] ELSE st

\* except Exception
AnyError ==
    {"Fault", "NoSuchEntity", "DeleteConflict", "EntityAlreadyExists",
     "ResourceConflictException", "ResourceNotFoundException", "KeyError"}

----------------------------------------------------------------------------
(* Agent provisioning: the helpers of agent.py.                            *)

LambdaRoleName(agent_name) == <<agent_name, "-lambda-role">>
DynamoPolicyName(agent_name) == <<agent_name, "-dynamodb-policy">>
AgentPolicyName(agent_name) == <<agent_name, "-ba">>
AgentRoleName(agent_name) == <<"AmazonBedrockExecutionRoleForAgents_", agent_name>>

\* What a variable holds that was never assigned a descriptor.
NoDescriptor == [Absent |-> TRUE]

\* d[outer][inner] can be read.
HasPath(d, outer, inner) == outer \in DOMAIN d /\ inner \in DOMAIN d[outer]

\* What a helper hands back: the run, the value it returns when it returns,
\* the other descriptor it used, and which branch each create-or-get took.
Outcome(st, value, used, path) ==
    [st |-> st, value |-> IF st.err = "" THEN value ELSE NoDescriptor,
     used |-> used, path |-> path]

\* create_lambda with a seeded fault: the response of get_function is
\* returned as it came.
create_lambda_whole_response(lambda_function_name, lambda_iam_role, st, failAt) ==
    IF ~HasPath(lambda_iam_role, "Role", "Arn")
    THEN Outcome([st EXCEPT !.err = "KeyError"], NoDescriptor, NoDescriptor, {})
    ELSE
    LET t1 == Issue(st, Req("create_function", lambda_function_name, ""), failAt)
        conflict == t1.err = "ResourceConflictException"
        t2 == Issue(Except(t1, {"ResourceConflictException"}),
                    Req("get_function", lambda_function_name, ""), failAt)
    IN IF conflict
       THEN Outcome(t2, Response(Req("get_function", lambda_function_name, "")),
                    NoDescriptor, {"function fetched"})
       ELSE Outcome(t1, Response(Req("create_function", lambda_function_name, "")),
                    NoDescriptor, {"function created"})

create_lambda(lambda_function_name, lambda_iam_role, st, failAt) ==
    IF ~HasPath(lambda_iam_role, "Role", "Arn")
    THEN Outcome([st EXCEPT !.err = "KeyError"], NoDescriptor, NoDescriptor, {})
    ELSE
    LET t1 == Issue(st, Req("create_function", lambda_function_name, ""), failAt)
        conflict == t1.err = "ResourceConflictException"
        t2 == Issue(Except(t1, {"ResourceConflictException"}),
                    Req("get_function", lambda_function_name, ""), failAt)
    IN IF conflict
       THEN Outcome(t2, Response(Req("get_function", lambda_function_name, ""))
                           .Configuration,
                    NoDescriptor, {"function fetched"})
       ELSE Outcome(t1, Response(Req("create_function", lambda_function_name, "")),
                    NoDescriptor, {"function created"})

create_lambda_role(agent_name, st, failAt) ==
    LET lambda_function_role == LambdaRoleName(agent_name)
        dynamodb_access_policy_name == DynamoPolicyName(agent_name)
        t1 == Issue(st, Req("create_role", lambda_function_role, ""), failAt)
        roleExists == t1.err = "EntityAlreadyExists"
        t2 == IF roleExists
              THEN Issue(Except(t1, {"EntityAlreadyExists"}),
                         Req("get_role", lambda_function_role, ""), failAt)
              ELSE t1
        lambda_iam_role ==
            Response(Req(IF roleExists THEN "get_role" ELSE "create_role",
                         lambda_function_role, ""))
        t3 == Issue(t2, Req("attach_role_policy", lambda_function_role,
                            PolicyArnOf(ManagedPolicy)), failAt)
        t4 == Issue(t3, Req("create_policy", dynamodb_access_policy_name, ""), failAt)
        policyExists == t3.err = "" /\ t4.err = "EntityAlreadyExists"
        t5 == IF policyExists
              THEN Issue(Except(t4, {"EntityAlreadyExists"}),
                         Req("get_policy", PolicyArnOf(dynamodb_access_policy_name), ""),
                         failAt)
              ELSE t4
        dynamodb_access_policy ==
            IF policyExists
            THEN Response(Req("get_policy", PolicyArnOf(dynamodb_access_policy_name), ""))
            ELSE Response(Req("create_policy", dynamodb_access_policy_name, ""))
        t6 == IF t5.err # "" THEN t5
              ELSE IF ~HasPath(dynamodb_access_policy, "Policy", "Arn")
              THEN [t5 EXCEPT !.err = "KeyError"]
              ELSE Issue(t5, Req("attach_role_policy", lambda_function_role,
                                 dynamodb_access_policy.Policy.Arn), failAt)
    IN Outcome(t6, lambda_iam_role,
               IF t5.err = "" THEN dynamodb_access_policy ELSE NoDescriptor,
               (IF t2.err = "" THEN {IF roleExists THEN "role fetched" ELSE "role created"}
                ELSE {})
               \cup (IF t5.err = ""
                     THEN {IF policyExists THEN "policy fetched" ELSE "policy created"}
                     ELSE {}))

RECURSIVE SetToSeq(_)
\* The members of a finite set in some fixed order.
SetToSeq(S) ==
    IF S = {} THEN <<>>
    ELSE LET x == CHOOSE y \in S : TRUE IN <<x>> \o SetToSeq(S \ {x})

RECURSIVE DeleteAttached(_, _, _, _)
\* The loop of delete_role_with_all_policies over the attached policies.  A
\* policy these helpers create has its default version only.
DeleteAttached(st, role_name, policy_arns, failAt) ==
    IF policy_arns = <<>> THEN st
    ELSE
    LET policy_arn == Head(policy_arns)
        t1 == Issue(st, Req("detach_role_policy", role_name, policy_arn), failAt)
        t2 == Issue(t1, Req("list_policy_versions", policy_arn, ""), failAt)
        t3 == Issue(t2, Req("delete_policy", policy_arn, ""), failAt)
    IN DeleteAttached(t3, role_name, Tail(policy_arns), failAt)

delete_role_with_all_policies(role_name, st, failAt) ==
    LET t1 == Issue(st, Req("list_attached_role_policies", role_name, ""), failAt)
        attached_policies ==
            SetToSeq({ x[2] : x \in { y \in st.iam.attached : y[1] = role_name } })
        t2 == IF t1.err # "" THEN t1
              ELSE DeleteAttached(t1, role_name, attached_policies, failAt)
        t3 == Issue(t2, Req("list_role_policies", role_name, ""), failAt)
        t4 == Issue(t3, Req("delete_role", role_name, ""), failAt)
    IN Except(t4, {"NoSuchEntity"})

create_agent_role(agent_name, st, failAt) ==
    LET agent_bedrock_allow_policy_name == AgentPolicyName(agent_name)
        agent_role_name == AgentRoleName(agent_name)
        t0 == delete_role_with_all_policies(agent_role_name, st, failAt)
        t1 == Issue(t0, Req("create_policy", agent_bedrock_allow_policy_name, ""), failAt)
        agent_bedrock_policy ==
            Response(Req("create_policy", agent_bedrock_allow_policy_name, ""))
        t2 == Issue(t1, Req("create_role", agent_role_name, ""), failAt)
        t3 == Issue(t2, Req("attach_role_policy", agent_role_name,
                            agent_bedrock_policy.Policy.Arn), failAt)
    IN Outcome(t3, Response(Req("create_role", agent_role_name, "")),
               agent_bedrock_policy, {})

RECURSIVE Tolerant(_, _, _)
\* Requests each inside its own try/except Exception.
Tolerant(st, reqs, failAt) ==
    IF reqs = <<>> THEN st
    ELSE Tolerant(Except(Issue(st, Head(reqs), failAt), AnyError), Tail(reqs), failAt)

delete_agent_roles_and_policies(agent_name, kb_policy_name, st, failAt) ==
    LET agent_bedrock_allow_policy_name == AgentPolicyName(agent_name)
        agent_role_name == AgentRoleName(agent_name)
        dynamodb_access_policy_name == DynamoPolicyName(agent_name)
        lambda_function_role == LambdaRoleName(agent_name)
    IN Tolerant(st,
         << Req("detach_role_policy", agent_role_name,
                PolicyArnOf(agent_bedrock_allow_policy_name)),
            Req("detach_role_policy", agent_role_name, PolicyArnOf(kb_policy_name)),
            Req("detach_role_policy", lambda_function_role,
                PolicyArnOf(dynamodb_access_policy_name)),
            Req("detach_role_policy", lambda_function_role, PolicyArnOf(ManagedPolicy)),
            Req("delete_role", agent_role_name, ""),
            Req("delete_role", lambda_function_role, ""),
            Req("delete_policy", PolicyArnOf(agent_bedrock_allow_policy_name), ""),
            Req("delete_policy", PolicyArnOf(kb_policy_name), ""),
            Req("delete_policy", PolicyArnOf(dynamodb_access_policy_name), "") >>,
         failAt)

NoHeld == [role |-> NoDescriptor, function |-> NoDescriptor]

\* The record of a helper call.
Ret(fn, out) ==
    [fn |-> fn, err |-> out.st.err, issued |-> out.st.issued,
     value |-> out.value, used |-> out.used, path |-> out.path]

NoRet == Ret("none", Outcome(Run(NoIam), NoDescriptor, NoDescriptor, {}))

ProvisionOff ==
    /\ iam = NoIam
    /\ held = NoHeld
    /\ ret = NoRet

----------------------------------------------------------------------------
(* The chatbot (chatbot_demo.py): one run of the script per interaction.   *)

\* The text models of MODELS, in the order of the selectbox.
TextModels ==
    << "us.amazon.nova-lite-v1:0", "us.amazon.nova-pro-v1:0",
       "us.amazon.nova-micro-v1:0" >>

\* The values of st.session_state.agent: None, or an agent built for a model.
NoneAgent == [isNone |-> TRUE, model |-> ""]
AgentFor(model_id) == [isNone |-> FALSE, model |-> model_id]

\* A session in which no key is set.
NoSession == [keys |-> {}, messages |-> <<>>, agent |-> NoneAgent, current_model |-> ""]

NoPrompt == [seen |-> FALSE, agent |-> NoneAgent, selected |-> ""]

ChatOff ==
    /\ ss = NoSession
    /\ selModel = ""
    /\ cpc = "off"
    /\ lastPrompt = NoPrompt

\* st.session_state.<key> = value
SetKey(s, key, value) ==
    [[s EXCEPT ![key] = value] EXCEPT !.keys = @ \cup {key}]

\* The script from "Initialize session state" to its end.  model_id is
\* the selection, prompt says whether the chat input holds a prompt,
\* initFails whether building the model or the agent raises, replyFails
\* whether the agent's call raises.  Returns the session and what the prompt
\* handling saw.
ScriptBody(s0, model_id, prompt, initFails, replyFails) ==
    LET s1 == IF "messages" \notin s0.keys THEN SetKey(s0, "messages", <<>>) ELSE s0
        init == \/ "agent" \notin s1.keys
                \/ "current_model" \notin s1.keys
                \/ s1.current_model # model_id
        s2 == IF init THEN SetKey(s1, "current_model", model_id) ELSE s1
        stopped == init /\ initFails
        s3 == IF init /\ ~initFails THEN SetKey(s2, "agent", AgentFor(model_id)) ELSE s2
        answered == ~s3.agent.isNone /\ ~replyFails
        s4 == [s3 EXCEPT !.messages =
                  @ \o <<"user", IF answered THEN "assistant" ELSE "error">>]
    IN IF stopped THEN [ss |-> s2, processed |-> NoPrompt]
       ELSE IF ~prompt THEN [ss |-> s3, processed |-> NoPrompt]
       ELSE [ss |-> s4,
             processed |-> [seen |-> TRUE, agent |-> s3.agent, selected |-> model_id]]

\* The sidebar's button block and the rest of the script: a press of Clear
\* Chat empties the history, sets the agent to None and reruns the script
\* from the top with no button pressed and no prompt.
Script(s0, model_id, clear, prompt, initFails, replyFails) ==
    IF clear
    THEN ScriptBody(SetKey(SetKey(s0, "messages", <<>>), "agent", NoneAgent),
                    model_id, FALSE, initFails, replyFails)
    ELSE ScriptBody(s0, model_id, prompt, initFails, replyFails)

----------------------------------------------------------------------------
(* The model table (model_constants.py) and the notebook's model selector  *)
(* (model_selector.py).  A dict is the sequence of its entries in          *)
(* insertion order; an optional argument is given or None.                 *)

\* MODELS: key, display name and type of each entry.
MODELS ==
    << [id |-> "us.amazon.nova-lite-v1:0", name |-> "Nova Lite", type |-> "text"],
       [id |-> "us.amazon.nova-pro-v1:0", name |-> "Nova Pro", type |-> "text"],
       [id |-> "us.amazon.nova-micro-v1:0", name |-> "Nova Micro", type |-> "text"],
       [id |-> "amazon.titan-embed-text-v1", name |-> "Titan Text Embeddings v1",
        type |-> "embeddings"],
       [id |-> "amazon.titan-embed-text-v2:0", name |-> "Titan Text Embeddings v2",
        type |-> "embeddings"],
       [id |-> "amazon.nova-canvas-v1:0", name |-> "Nova Canvas", type |-> "image"],
       [id |-> "amazon.nova-reel-v1:1", name |-> "Nova Reel", type |-> "video"] >>

\* {k: v for k, v in MODELS.items() if v["type"] == t}
OfType(t) ==
    LET Is(m) == m.type = t IN SelectSeq(MODELS, Is)

TEXT_MODELS == OfType("text")
EMBEDDING_MODELS == OfType("embeddings")
IMAGE_MODELS == OfType("image")
VIDEO_MODELS == OfType("video")

\* list(table.keys())
KeysOf(table) == [i \in 1..Len(table) |-> table[i].id]

\* key in table
HasKey(table, k) == \E i \in 1..Len(table) : table[i].id = k

\* table[k]["name"], for a key of the table.
NameOf(table, k) ==
    table[CHOOSE i \in 1..Len(table) : table[i].id = k].name

\* An optional string argument.
None == [given |-> FALSE, id |-> ""]
Str(x) == [given |-> TRUE, id |-> x]

\* The truth value of an optional string: None and "" are false.
Truthy(d) == d.given /\ d.id # ""

\* default or builtin
OrElse(default, builtin) == IF Truthy(default) THEN default ELSE Str(builtin)

\* The table ModelSelector.__init__ picks for a model type.
available_models(model_type) ==
    CASE model_type = "text" -> TEXT_MODELS
      [] model_type = "embeddings" -> EMBEDDING_MODELS
      [] model_type = "image" -> IMAGE_MODELS
      [] model_type = "video" -> VIDEO_MODELS
      [] OTHER -> MODELS

\* _update_info: what the info display shows, MODELS[selected_model]'s name
\* ("KeyError" were the selection no key of MODELS).
update_info(show_description, selected_model, shown) ==
    IF ~show_description THEN shown
    ELSE IF HasKey(MODELS, selected_model) THEN NameOf(MODELS, selected_model)
    ELSE "KeyError"

\* ModelSelector.__init__: the object it leaves.
ModelSelector(model_type, default_model, show_description) ==
    LET table == available_models(model_type)
        default_value ==
            IF Truthy(default_model) /\ HasKey(table, default_model.id)
            THEN default_model.id
            ELSE KeysOf(table)[1]
    IN  [ model_type |-> model_type,
          show_description |-> show_description,
          options |-> KeysOf(table),
          value |-> default_value,
          selected_model |-> default_value,
          info |-> update_info(show_description, default_value, "") ]

\* The dropdown's value changes to new: _on_change.
on_change(s, new) ==
    [ model_type |-> s.model_type,
      show_description |-> s.show_description,
      options |-> s.options,
      value |-> new,
      selected_model |-> new,
      info |-> update_info(s.show_description, new, s.info) ]

get_model_id(s) == s.selected_model

\* The default model id each convenience function names.
BuiltinText == "us.amazon.nova-lite-v1:0"
BuiltinEmbedding == "amazon.titan-embed-text-v2:0"
BuiltinImage == "us.amazon.nova-canvas-v1:0"
BuiltinVideo == "us.amazon.nova-reel-v1:0"

create_text_model_selector(default, show_description) ==
    ModelSelector("text", OrElse(default, BuiltinText), show_description)

create_embedding_model_selector(default, show_description) ==
    ModelSelector("embeddings", OrElse(default, BuiltinEmbedding), show_description)

create_image_model_selector(default, show_description) ==
    ModelSelector("image", OrElse(default, BuiltinImage), show_description)

create_video_model_selector(default, show_description) ==
    ModelSelector("video", OrElse(default, BuiltinVideo), show_description)

\* The four convenience functions, and what the notebook holds: the
\* selector it built last, the function that built it, the default argument
\* it got, and whether the dropdown has changed since.
SelectorFns == {"text", "embeddings", "image", "video"}

NoSelector ==
    [ made |-> FALSE, fn |-> "", default |-> None, changed |-> FALSE,
      obj |-> [ model_type |-> "", show_description |-> FALSE, options |-> <<>>,
                value |-> "", selected_model |-> "", info |-> "" ] ]

SelectorOff == sel = NoSelector


----------------------------------------------------------------------------
(* invoke_agent_helper (agent.py): one pass over the completion stream.    *)
(* A stream item is an event (a dict, of which the keys matter, and the    *)
(* bytes under 'chunk') or an exception that iterating the stream raises.  *)

\* "sub in s" for Python strings.
Contains(s, sub) ==
    \E i \in 0..(Len(s) - Len(sub)) : SubSeq(s, i + 1, i + Len(sub)) = sub

L_throttlingException == <<"t", "h", "r", "o", "t", "t", "l", "i", "n", "g", "E", "x", "c", "e", "p", "t", "i", "o", "n">>

RECURSIVE decode_utf8(_)
\* bytes.decode('utf8'): the code points, or ok = FALSE for UnicodeDecodeError.
\* One-byte and two-byte forms; the byte values of the model include no lead
\* byte of a longer form.
decode_utf8(bytes) ==
    IF bytes = <<>> THEN [ok |-> TRUE, text |-> <<>>]
    ELSE IF Head(bytes) < 128
    THEN LET rest == decode_utf8(Tail(bytes))
         IN  [ok |-> rest.ok,
              text |-> IF rest.ok THEN <<Head(bytes)>> \o rest.text ELSE <<>>]
    ELSE IF /\ Head(bytes) >= 194 /\ Head(bytes) <= 223
            /\ Len(bytes) >= 2
            /\ bytes[2] >= 128 /\ bytes[2] <= 191
    THEN LET rest == decode_utf8(Tail(Tail(bytes)))
             point == (Head(bytes) - 192) * 64 + (bytes[2] - 128)
         IN  [ok |-> rest.ok,
              text |-> IF rest.ok THEN <<point>> \o rest.text ELSE <<>>]
    ELSE [ok |-> FALSE, text |-> <<>>]

\* Stream items.
Event(keys, bytes) == [raises |-> "", keys |-> keys, bytes |-> bytes, text |-> <<>>]
Raises(type, text) == [raises |-> type, keys |-> {}, bytes |-> <<>>, text |-> text]

\* How a call ends: "returned" with a value (None when no text), or "raised"
\* with the exception's type and message; read counts the stream items the
\* loop took, logged the logger.info calls.
NoText == [none |-> TRUE, text |-> <<>>]
Returned(value, read, logged) ==
    [ended |-> "returned", value |-> value, type |-> "", msg |-> "",
     read |-> read, logged |-> logged]
Raised(type, msg, read, logged) ==
    [ended |-> "raised", value |-> NoText, type |-> type, msg |-> msg,
     read |-> read, logged |-> logged]

M_unexpected == "unexpected event."
M_throttling == "Throttling occured, please run the code in this cell again."

\* The two except clauses: what an exception of the try block becomes.
Handle(type, text, read, logged) ==
    IF type = "EventStreamError"
    THEN IF Contains(text, L_throttlingException)
         THEN Raised("Exception", M_throttling, read, logged)
         ELSE Raised("EventStreamError", "as raised", read, logged)
    ELSE Raised("Exception", M_unexpected, read, logged)

RECURSIVE EventLoopToEnd(_, _, _, _, _)
\* The loop with the return of the chunk branch moved after the loop: every
\* event is read and the last chunk's text is returned (with a seeded fault).
EventLoopToEnd(event_stream, i, enable_trace, logged, last) ==
    IF i > Len(event_stream) THEN Returned(last, Len(event_stream), logged)
    ELSE LET event == event_stream[i]
             log1 == IF enable_trace THEN logged + 1 ELSE logged
         IN  IF event.raises # ""
             THEN Handle(event.raises, event.text, i, logged)
             ELSE IF "chunk" \in event.keys
             THEN IF decode_utf8(event.bytes).ok
                  THEN EventLoopToEnd(event_stream, i + 1, enable_trace, log1,
                           [none |-> FALSE, text |-> decode_utf8(event.bytes).text])
                  ELSE Handle("UnicodeDecodeError", <<>>, i, logged)
             ELSE IF "trace" \in event.keys
             THEN EventLoopToEnd(event_stream, i + 1, enable_trace, log1, last)
             ELSE Handle("Exception", <<>>, i, logged)

RECURSIVE EventLoop(_, _, _, _, _)
\* for event in event_stream, from item i on, inside the try block.
EventLoop(event_stream, i, enable_trace, logged, last) ==
    IF i > Len(event_stream) THEN Returned(NoText, Len(event_stream), logged)
    ELSE LET event == event_stream[i]
             log1 == IF enable_trace THEN logged + 1 ELSE logged
         IN  IF event.raises # ""
             THEN Handle(event.raises, event.text, i, logged)
             ELSE IF "chunk" \in event.keys
             THEN IF decode_utf8(event.bytes).ok
                  THEN Returned([none |-> FALSE, text |-> decode_utf8(event.bytes).text],
                                i, log1)
                  ELSE Handle("UnicodeDecodeError", <<>>, i, logged)
             ELSE IF "trace" \in event.keys
             THEN EventLoop(event_stream, i + 1, enable_trace, log1, last)
             ELSE Handle("Exception", <<>>, i, logged)

\* invoke_agent_helper, given what invoke_agent answers: an exception of its
\* own (raised outside the try block, so it passes through), or a response
\* whose 'completion' is the event stream.
invoke_agent_helper(invoke_raises, event_stream, enable_trace) ==
    IF invoke_raises THEN Raised("ClientError", "as raised", 0, 0)
    ELSE EventLoop(event_stream, 1, enable_trace,
                   IF enable_trace THEN 1 ELSE 0, NoText)

NoAnswer == Returned(NoText, 0, 0)

InvokeOff ==
    /\ stream = <<>>
    /\ enableTrace = FALSE
    /\ answer = NoAnswer
    /\ ipc = "off"


----------------------------------------------------------------------------
(* The agent runtime entrypoint (strands_claude.py): call_agent under its  *)
(* retry decorator.  The decorator calls the function, and after an        *)
(* exception its retry_on_exception test accepts it waits wait_fixed       *)
(* milliseconds and calls again, unless stop_max_delay milliseconds have   *)
(* passed since the first call started; then, and after any other          *)
(* exception, the exception of the last attempt is raised.                 *)

L_throttl == <<"t", "h", "r", "o", "t", "t", "l">>

\* The decorator's arguments.
wait_fixed == 5000
stop_max_delay == 30 * 1000

\* retry_on_exception with the test of the text dropped: every exception is
\* retried (with a seeded fault).
retry_on_any_exception(text) == TRUE

\* retry_on_exception=lambda e: ('throttl' in str(e))
retry_on_exception(text) == Contains(text, L_throttl)

\* What an agent invocation does: returns a response with a text, or raises
\* an exception with a text.
AgentReturns(text) == [raised |-> FALSE, text |-> text]
AgentRaises(text) == [raised |-> TRUE, text |-> text]

\* payload.get("prompt"): the value under the key, or None.
NoPayload == [has |-> FALSE, prompt |-> ""]
PayloadGet(p) == IF p.has THEN Str(p.prompt) ELSE None

\* One attempt of call_agent and what the decorator does after it, given
\* the attempt's outcome and the time it ended (since the first attempt
\* started): "return" the response, "raise" the exception, or "retry" after
\* the wait.
AfterAttempt(outcome, delay_since_first_attempt_ms) ==
    IF ~outcome.raised THEN "return"
    ELSE IF ~retry_on_exception(outcome.text) THEN "raise"
    ELSE IF delay_since_first_attempt_ms >= stop_max_delay THEN "raise"
    ELSE "retry"

NoResult == [ended |-> "", text |-> <<>>]

RetryOff ==
    /\ payload = NoPayload
    /\ rpc = "off"
    /\ attempt_number = 0
    /\ clock = 0
    /\ calls = <<>>
    /\ result = NoResult

ToolsOff == SelectorOff /\ InvokeOff /\ RetryOff

----------------------------------------------------------------------------
(* The sweep: get_tagged_resources and delete_resources.                   *)

NoWorld == [live |-> {}, subs |-> {}]

\* The sub-resources a resource of the universe has when it is created.
DefaultSubs(r) ==
    CASE r.kind = "collection" ->
            { Sub("secpol", CollectionName(TrueId(r)), "encryption", 1),
              Sub("accpol", CollectionName(TrueId(r)), "data", 1) }
      [] r.kind = "knowledgebase" -> { Sub("ds", TrueId(r), "", 1) }
      [] r.kind = "bucket" ->
            { Sub("page", TrueId(r), "", 1), Sub("object", TrueId(r), "", 1) }
      [] r.kind = "role" ->
            { Sub("attached", TrueId(r), "", 1), Sub("profile", TrueId(r), "", 1) }
      [] r.kind = "policy" ->
            { Sub("version", TrueId(r), "default", 1),
              Sub("version", TrueId(r), "other", 2) }
      [] OTHER -> {}

\* Every order in which the provider may return the members of S.
Orders(S) ==
    { f \in [1..Cardinality(S) -> S] :
        \A x, y \in 1..Cardinality(S) : f[x] = f[y] => x = y }

Arns(rs) == [k \in 1..Len(rs) |-> ArnOf(rs[k])]

\* The loops with a seeded fault: identifier outer, handler inner.
LoopAdvanceArnOuter(h, a, n) ==
    IF h < Len(delete_actions) THEN [hi |-> h + 1, ai |-> a, done |-> FALSE]
    ELSE IF a < n THEN [hi |-> 1, ai |-> a + 1, done |-> FALSE]
    ELSE [hi |-> h, ai |-> a, done |-> TRUE]

\* The position after <<h, a>> in "for action in delete_actions: for arn in
\* arns", over n identifiers.
LoopAdvance(h, a, n) ==
    IF a < n THEN [hi |-> h, ai |-> a + 1, done |-> FALSE]
    ELSE IF h < Len(delete_actions) THEN [hi |-> h + 1, ai |-> 1, done |-> FALSE]
    ELSE [hi |-> h, ai |-> a, done |-> TRUE]

\* The first position of the loops over n identifiers.
LoopStart(n) == IF n = 0 THEN "done" ELSE "sweeping"

SweepIdle ==
    /\ arns = <<>>
    /\ hi = 1
    /\ ai = 1
    /\ run = 0
    /\ started = "none"
    /\ faults = 0
    /\ log = <<>>
    /\ invoked = <<>>

ParseOff ==
    /\ input = <<>>
    /\ ppc = "off"
    /\ parsed = IndexError
    /\ fired = {}

NoFail == [tag |-> NoFailure, role |-> NoFailure]

NoOutput == [resources |-> <<>>, printed |-> {}, raised |-> FALSE]

DiscoverOff ==
    /\ dTagged = <<>>
    /\ dRoles = <<>>
    /\ dPageSize = 1
    /\ dpc = "off"
    /\ dFail = NoFail
    /\ dOut = NoOutput

\* The tag the sweep is run for.
TagName == "k"
TagValue == "v"

\* The tagged resources in the order rs, as items of a listing.
TaggedItems(rs) ==
    [k \in 1..Len(rs) |-> Item(ArnOf(rs[k]), {Tag(TagName, TagValue)})]

Init ==
    /\ \E L \in SUBSET Universe :
          /\ Cardinality(L) <= MaxRes
          /\ world = [live |-> L, subs |-> UNION { DefaultSubs(r) : r \in L }]
          /\ tagQueryRoles \in
                IF \E r \in L : r.kind = "role" THEN BOOLEAN ELSE {FALSE}
    /\ pc = "idle"
    /\ SweepIdle
    /\ ParseOff
    /\ DiscoverOff
    /\ ProvisionOff
    /\ ChatOff
    /\ ToolsOff

\* get_tagged_resources followed by the call of delete_resources on its
\* result: the generic tag query's identifiers in the provider's order, then
\* the tagged roles of the role scan.
Discover ==
    /\ pc \in {"idle", "done", "raised"}
    /\ run < MaxRuns
    /\ \E tq \in Orders({ r \in world.live : r.kind # "role" \/ tagQueryRoles }),
          rs \in Orders({ r \in world.live : r.kind = "role" }) :
          /\ arns' = get_tagged_resources(TagName, TagValue,
                         TagQueryPages(TaggedItems(tq), TagName, TagValue, MaxPageSize),
                         Pages(TaggedItems(rs), MaxPageSize),
                         NoFailure, NoFailure).resources
          /\ pc' = LoopStart(Len(tq) + Len(rs))
    /\ hi' = 1
    /\ ai' = 1
    /\ run' = run + 1
    /\ started' = "discover"
    /\ log' = <<>>
    /\ invoked' = <<>>
    /\ UNCHANGED <<world, tagQueryRoles, faults, notSweep>>

\* delete_resources called again on the list of the sweep before.
Rerun ==
    /\ pc \in {"done", "raised"}
    /\ run < MaxRuns
    /\ arns # <<>>
    /\ pc' = "sweeping"
    /\ hi' = 1
    /\ ai' = 1
    /\ run' = run + 1
    /\ started' = "rerun"
    /\ log' = <<>>
    /\ invoked' = <<>>
    /\ UNCHANGED <<world, tagQueryRoles, arns, faults, notSweep>>

\* One pass of the inner loop body: parse_arn, then the handler call with
\* every provider call it makes.  No except clause surrounds it: a raise
\* ends delete_resources.
Invoke ==
    /\ pc = "sweeping"
    /\ LET arn == arns[ai]
           p == parse_arn(arn)
           plan == HandlerPlan(delete_actions[hi], arn, p.service, p.resource, world)
       IN \E failAt \in (IF faults < MaxFaults THEN 0..Len(plan) ELSE {0}),
             failAs \in FaultKinds :
            LET out == Exec(world, plan, 1, failAt, failAs, <<hi, ai>>, log)
                nxt == LoopAdvance(hi, ai, Len(arns))
            IN /\ world' = out.w
               /\ log' = out.log
               /\ faults' = IF failAt = 0 THEN faults ELSE faults + 1
               /\ invoked' = Append(invoked, <<hi, ai>>)
               /\ IF p.err # "" \/ out.raised
                  THEN pc' = "raised" /\ UNCHANGED <<hi, ai>>
                  ELSE /\ pc' = IF nxt.done THEN "done" ELSE "sweeping"
                       /\ hi' = nxt.hi
                       /\ ai' = nxt.ai
    /\ UNCHANGED <<tagQueryRoles, arns, run, started, notSweep>>

Next == Discover \/ Rerun \/ Invoke

Spec == Init /\ [][Next]_vars


----------------------------------------------------------------------------
(* A collection with every choice of policies (specification               *)
(* SpecCollection): the sweep over what discovery finds.                   *)

TheCollection == CHOOSE r \in Universe : r.kind = "collection"

CollectionPolicies ==
    LET name == CollectionName(TrueId(TheCollection)) IN
    { Sub("secpol", name, t, n) :
        t \in {"encryption", "network"}, n \in 1..MaxSecPolicies }
    \cup { Sub("accpol", name, "data", n) : n \in 1..MaxAccessPolicies }

InitCollection ==
    /\ \E ps \in SUBSET CollectionPolicies :
          world = [live |-> {TheCollection}, subs |-> ps]
    /\ tagQueryRoles = FALSE
    /\ pc = "idle"
    /\ SweepIdle
    /\ ParseOff
    /\ DiscoverOff
    /\ ProvisionOff
    /\ ChatOff
    /\ ToolsOff

SpecCollection == InitCollection /\ [][Next]_vars

----------------------------------------------------------------------------
(* One knowledge base, bucket, role or policy with every choice of         *)
(* sub-resources (specification SpecHandlers): the sweep over what         *)
(* discovery finds.                                                        *)

OfKind(kind) == CHOOSE r \in Universe : r.kind = kind

\* A knowledge base with any of its data sources.
KnowledgeBaseSubs ==
    SUBSET { Sub("ds", TrueId(OfKind("knowledgebase")), "", n) :
               n \in 1..MaxDataSources }

\* A bucket whose object listing has k pages, any of them without objects.
BucketSubs ==
    UNION { { { Sub("page", TrueId(OfKind("bucket")), "", n) : n \in 1..k }
              \cup { Sub("object", TrueId(OfKind("bucket")), "", n) : n \in full } :
                full \in SUBSET (1..k) } :
            k \in 1..MaxPages }

\* A role with any attached policies, inline policies and instance profiles.
RoleSubs ==
    SUBSET { Sub(kd, TrueId(OfKind("role")), "", n) :
               kd \in {"attached", "inline", "profile"}, n \in 1..MaxRoleParts }

\* A policy with its default version and any other versions.
PolicySubs ==
    { {Sub("version", TrueId(OfKind("policy")), "default", DefaultVersion)} \cup S :
        S \in SUBSET { Sub("version", TrueId(OfKind("policy")), "other",
                           DefaultVersion + n) : n \in 1..MaxVersions } }

InitHandlers ==
    /\ \E kind \in {"knowledgebase", "bucket", "role", "policy"} :
          \E S \in (CASE kind = "knowledgebase" -> KnowledgeBaseSubs
                      [] kind = "bucket" -> BucketSubs
                      [] kind = "role" -> RoleSubs
                      [] kind = "policy" -> PolicySubs) :
              world = [live |-> {OfKind(kind)}, subs |-> S]
    /\ tagQueryRoles = FALSE
    /\ pc = "idle"
    /\ SweepIdle
    /\ ParseOff
    /\ DiscoverOff
    /\ ProvisionOff
    /\ ChatOff
    /\ ToolsOff

SpecHandlers == InitHandlers /\ [][Next]_vars

----------------------------------------------------------------------------
(* Discovery on its own (specification SpecDiscover): get_tagged_resources *)
(* over an account whose resources and roles carry any tags, with any page *)
(* size and any one request of each source failing.                        *)

OtherName == "j"
OtherValue == "u"

\* The tag sets of a role: no tag, the tag, the key with another value next
\* to the value under another key, the tag next to another tag.
RoleTagSets ==
    { {},
      {Tag(TagName, TagValue)},
      {Tag(TagName, OtherValue), Tag(OtherName, TagValue)},
      {Tag(OtherName, OtherValue), Tag(TagName, TagValue)} }

\* The tag sets of a resource the tag query covers: with and without the tag.
GenericTagSets ==
    { {Tag(TagName, TagValue)},
      {Tag(TagName, OtherValue), Tag(OtherName, TagValue)} }

\* A name for the i-th item of a listing.
IndexName(i) == [k \in 1..i |-> "i"]

GenericArn(i) == MkArn(S_sns, <<"t">> \o IndexName(i))

RoleArn(i) == MkArn(S_iam, P_role \o IndexName(i))

GenericItems == [i \in DOMAIN dTagged |-> Item(GenericArn(i), dTagged[i])]

RoleItems == [i \in DOMAIN dRoles |-> Item(RoleArn(i), dRoles[i])]

InitDiscover ==
    /\ dTagged \in UNION { [1..n -> GenericTagSets] : n \in 0..MaxGeneric }
    /\ dRoles \in UNION { [1..n -> RoleTagSets] : n \in 0..MaxRoles }
    /\ dPageSize \in 1..MaxPageSize
    /\ dpc = "ready"
    /\ dFail = NoFail
    /\ dOut = NoOutput
    /\ world = NoWorld
    /\ tagQueryRoles = FALSE
    /\ pc = "off"
    /\ SweepIdle
    /\ ParseOff
    /\ ProvisionOff
    /\ ChatOff
    /\ ToolsOff

\* resources = get_tagged_resources(name, value), with at most one request
\* of each source failing.  A failure of the role scan has no effect when
\* the tag query has already raised.
GetTaggedResources ==
    /\ dpc = "ready"
    /\ LET tagPages == TagQueryPages(GenericItems, TagName, TagValue, dPageSize)
           rolePages == Pages(RoleItems, dPageSize)
       IN \E failTag \in Failures(Len(tagPages)),
             failRole \in Failures(Len(RoleRequests(rolePages))) :
            LET out == get_tagged_resources(TagName, TagValue, tagPages,
                                            rolePages, failTag, failRole)
            IN /\ dOut' = out
               /\ dFail' = [tag |-> failTag, role |-> failRole]
               /\ dpc' = IF out.raised THEN "raised" ELSE "returned"
    /\ UNCHANGED <<dTagged, dRoles, dPageSize, notDiscover>>

NextDiscover == GetTaggedResources

SpecDiscover == InitDiscover /\ [][NextDiscover]_vars

----------------------------------------------------------------------------
(* Agent provisioning (specification SpecProvision): the helpers called in *)
(* any order on an account that starts empty, any one request of a call    *)
(* failing.                                                                *)

AgentNames == {"agent"}

LambdaName(agent_name) == <<agent_name, "-lambda">>

KbPolicyName == <<"kb">>

\* The requests a helper call may see fail: any one of those it issues when
\* none fails.
FailPoints(out) == 0..Len(out.st.issued)

InitProvision ==
    /\ iam = NoIam
    /\ held = NoHeld
    /\ ret = NoRet
    /\ world = NoWorld
    /\ tagQueryRoles = FALSE
    /\ pc = "off"
    /\ SweepIdle
    /\ ParseOff
    /\ DiscoverOff
    /\ ChatOff
    /\ ToolsOff

\* lambda_iam_role = create_lambda_role(agent_name, table_name)
CreateLambdaRole ==
    /\ \E agent_name \in AgentNames :
         \E failAt \in FailPoints(create_lambda_role(agent_name, Run(iam), 0)) :
            LET out == create_lambda_role(agent_name, Run(iam), failAt)
            IN /\ iam' = out.st.iam
               /\ ret' = Ret("create_lambda_role", out)
               /\ held' = IF out.st.err = "" THEN [held EXCEPT !.role = out.value]
                          ELSE held
    /\ UNCHANGED notProvision

\* lambda_function = create_lambda(lambda_function_name, lambda_iam_role),
\* with the role descriptor create_lambda_role returned.
CreateLambda ==
    /\ held.role # NoDescriptor
    /\ \E agent_name \in AgentNames :
         \E failAt \in FailPoints(create_lambda(LambdaName(agent_name), held.role,
                                               Run(iam), 0)) :
            LET out == create_lambda(LambdaName(agent_name), held.role, Run(iam), failAt)
            IN /\ iam' = out.st.iam
               /\ ret' = Ret("create_lambda", out)
               /\ held' = IF out.st.err = "" THEN [held EXCEPT !.function = out.value]
                          ELSE held
    /\ UNCHANGED notProvision

\* agent_role = create_agent_role(agent_name, agent_foundation_model)
CreateAgentRole ==
    /\ \E agent_name \in AgentNames :
         \E failAt \in FailPoints(create_agent_role(agent_name, Run(iam), 0)) :
            LET out == create_agent_role(agent_name, Run(iam), failAt)
            IN /\ iam' = out.st.iam
               /\ ret' = Ret("create_agent_role", out)
    /\ UNCHANGED <<held, notProvision>>

\* delete_agent_roles_and_policies(agent_name, kb_policy_name)
DeleteAgentRolesAndPolicies ==
    /\ \E agent_name \in AgentNames :
         \E failAt \in 0..Len(delete_agent_roles_and_policies(
                                  agent_name, KbPolicyName, Run(iam), 0).issued) :
            LET st == delete_agent_roles_and_policies(agent_name, KbPolicyName,
                                                      Run(iam), failAt)
            IN /\ iam' = st.iam
               /\ ret' = Ret("delete_agent_roles_and_policies",
                             Outcome(st, NoDescriptor, NoDescriptor, {}))
    /\ UNCHANGED <<held, notProvision>>

NextProvision ==
    CreateLambdaRole \/ CreateLambda \/ CreateAgentRole \/ DeleteAgentRolesAndPolicies

SpecProvision == InitProvision /\ [][NextProvision]_vars

----------------------------------------------------------------------------
(* The chatbot session (specification SpecChat): page load, then any       *)
(* sequence of model changes, prompts, Clear Chat presses and other        *)
(* interactions, with the agent's construction or its reply failing at any *)
(* time.                                                                   *)

InitChat ==
    /\ ss = NoSession
    /\ selModel = TextModels[1]
    /\ cpc = "new"
    /\ lastPrompt = NoPrompt
    /\ world = NoWorld
    /\ tagQueryRoles = FALSE
    /\ pc = "off"
    /\ SweepIdle
    /\ ParseOff
    /\ DiscoverOff
    /\ ProvisionOff
    /\ ToolsOff

\* One run of the script.
RunScript(model_id, clear, prompt) ==
    \E initFails, replyFails \in BOOLEAN :
        LET out == Script(ss, model_id, clear, prompt, initFails, replyFails)
        IN /\ ss' = out.ss
           /\ lastPrompt' = IF out.processed.seen THEN out.processed ELSE lastPrompt
           /\ selModel' = model_id
           /\ cpc' = "shown"
           /\ UNCHANGED notChat

\* The first run, when the page is opened.
Load ==
    /\ cpc = "new"
    /\ RunScript(selModel, FALSE, FALSE)

\* The user picks another model.
SelectModel ==
    /\ cpc = "shown"
    /\ \E k \in 1..Len(TextModels) :
          /\ TextModels[k] # selModel
          /\ RunScript(TextModels[k], FALSE, FALSE)

\* The user moves the temperature slider or opens the model details.
Interact ==
    /\ cpc = "shown"
    /\ RunScript(selModel, FALSE, FALSE)

\* The user presses Clear Chat.
ClearChat ==
    /\ cpc = "shown"
    /\ RunScript(selModel, TRUE, FALSE)

\* The user submits a prompt.
SubmitPrompt ==
    /\ cpc = "shown"
    /\ Len(ss.messages) < 2 * MaxPrompts
    /\ RunScript(selModel, FALSE, TRUE)

NextChat == Load \/ SelectModel \/ Interact \/ ClearChat \/ SubmitPrompt

SpecChat == InitChat /\ [][NextChat]_vars

----------------------------------------------------------------------------
(* The model selectors (specification SpecSelector): a notebook builds     *)
(* selectors with the four convenience functions, with any default         *)
(* argument, and the user changes their dropdowns.                         *)

\* The default arguments a notebook passes: none, the empty string, a key of
\* MODELS, the ids the convenience functions name, or an id no table has.
DefaultArgs ==
    {None, Str("")}
        \cup {Str(MODELS[i].id) : i \in 1..Len(MODELS)}
        \cup {Str(BuiltinImage), Str(BuiltinVideo), Str("unknown-model")}

InitSelector ==
    /\ SelectorOff
    /\ InvokeOff
    /\ RetryOff
    /\ world = NoWorld
    /\ tagQueryRoles = FALSE
    /\ pc = "off"
    /\ SweepIdle
    /\ ParseOff
    /\ DiscoverOff
    /\ ProvisionOff
    /\ ChatOff

Built(f, default, obj) ==
    /\ sel' = [made |-> TRUE, fn |-> f, default |-> default,
               changed |-> FALSE, obj |-> obj]
    /\ UNCHANGED notSelector

CreateTextModelSelector ==
    \E default \in DefaultArgs, show \in BOOLEAN :
        Built("text", default, create_text_model_selector(default, show))

CreateEmbeddingModelSelector ==
    \E default \in DefaultArgs, show \in BOOLEAN :
        Built("embeddings", default, create_embedding_model_selector(default, show))

CreateImageModelSelector ==
    \E default \in DefaultArgs, show \in BOOLEAN :
        Built("image", default, create_image_model_selector(default, show))

CreateVideoModelSelector ==
    \E default \in DefaultArgs, show \in BOOLEAN :
        Built("video", default, create_video_model_selector(default, show))

\* The user picks another option of a selector's dropdown.
DropdownChange ==
    /\ sel.made
    /\ \E i \in 1..Len(sel.obj.options) :
          /\ sel.obj.options[i] # sel.obj.value
          /\ sel' = [sel EXCEPT !.obj = on_change(sel.obj, sel.obj.options[i]),
                                !.changed = TRUE]
    /\ UNCHANGED notSelector

NextSelector ==
    \/ CreateTextModelSelector
    \/ CreateEmbeddingModelSelector
    \/ CreateImageModelSelector
    \/ CreateVideoModelSelector
    \/ DropdownChange

SpecSelector == InitSelector /\ [][NextSelector]_vars

----------------------------------------------------------------------------
(* invoke_agent_helper on its own (specification SpecInvoke): the call on  *)
(* any stream of trace events, then any one other item, then any tail.     *)

\* The byte values of the model: 'a', and the two bytes of U+00E9.
ByteValues == {97, 195, 169}

RECURSIVE SeqsUpTo(_, _)
\* The sequences over S of length n or less.
SeqsUpTo(S, n) ==
    IF n = 0 THEN {<<>>}
    ELSE SeqsUpTo(S, n - 1)
             \cup {Append(q, x) : q \in SeqsUpTo(S, n - 1), x \in S}

\* What an EventStreamError's text may be.
ErrorTexts ==
    { <<"t", "h", "r", "o", "t", "t", "l", "i", "n", "g", "E", "x", "c", "e", "p", "t", "i", "o", "n">>,
      <<"(", "t", "h", "r", "o", "t", "t", "l", "i", "n", "g", "E", "x", "c", "e", "p", "t", "i", "o", "n", ")", " ", "s", "l", "o", "w", " ", "d", "o", "w", "n">>,
      <<"T", "h", "r", "o", "t", "t", "l", "i", "n", "g", "E", "x", "c", "e", "p", "t", "i", "o", "n">>,
      <<"t", "h", "r", "o", "t", "t", "l", "i", "n", "g">>,
      <<"i", "n", "t", "e", "r", "n", "a", "l", "S", "e", "r", "v", "e", "r", "E", "x", "c", "e", "p", "t", "i", "o", "n">> }

TraceEvent == Event({"trace"}, <<>>)

\* The items that are not a plain trace event.
OtherItems ==
    {Event(keys, bytes) : keys \in {{"chunk"}, {"chunk", "trace"}},
                          bytes \in SeqsUpTo(ByteValues, MaxBytes)}
        \cup {Event({}, <<>>), Event({"returnControl"}, <<>>)}
        \cup {Raises("EventStreamError", t) : t \in ErrorTexts}
        \cup {Raises("ReadTimeoutError", <<>>)}

\* The items after the first non-trace item.
TailItems ==
    {TraceEvent, Event({"chunk"}, <<97>>), Event({"chunk"}, <<195>>),
     Event({"files"}, <<>>), Raises("EventStreamError", <<>>)}

Streams ==
    {[i \in 1..n |-> TraceEvent] : n \in 0..MaxTraces}
        \cup {[i \in 1..n |-> TraceEvent] \o <<x>> \o tail :
                n \in 0..MaxTraces, x \in OtherItems,
                tail \in SeqsUpTo(TailItems, MaxTail)}

InitInvoke ==
    /\ stream \in Streams
    /\ enableTrace \in BOOLEAN
    /\ answer = NoAnswer
    /\ ipc = "ready"
    /\ SelectorOff
    /\ RetryOff
    /\ world = NoWorld
    /\ tagQueryRoles = FALSE
    /\ pc = "off"
    /\ SweepIdle
    /\ ParseOff
    /\ DiscoverOff
    /\ ProvisionOff
    /\ ChatOff

InvokeAgentHelper ==
    /\ ipc = "ready"
    /\ \E invoke_raises \in BOOLEAN :
          answer' = invoke_agent_helper(invoke_raises, stream, enableTrace)
    /\ ipc' = "done"
    /\ UNCHANGED <<stream, enableTrace, notInvoke>>

NextInvoke == InvokeAgentHelper

SpecInvoke == InitInvoke /\ [][NextInvoke]_vars

----------------------------------------------------------------------------
(* The agent runtime entrypoint (specification SpecRetry): one invocation  *)
(* of strands_agent_bedrock, each agent invocation taking any time up to   *)
(* MaxCallSecs seconds and returning or raising any of the modelled        *)
(* exceptions.                                                             *)

Prompts == {"2+2"}

Payloads == {NoPayload} \cup {[has |-> TRUE, prompt |-> q] : q \in Prompts}

\* The texts of the exceptions an agent invocation raises.
ExceptionTexts ==
    { <<"r", "e", "q", "u", "e", "s", "t", " ", "t", "h", "r", "o", "t", "t", "l", "e", "d">>,
      <<"T", "h", "r", "o", "t", "t", "l", "i", "n", "g", "E", "x", "c", "e", "p", "t", "i", "o", "n">>,
      <<"t", "i", "m", "e", "o", "u", "t">> }

ResponseText == <<"4">>

AgentOutcomes ==
    {AgentReturns(ResponseText)} \cup {AgentRaises(t) : t \in ExceptionTexts}

InitRetry ==
    /\ payload \in Payloads
    /\ rpc = "idle"
    /\ attempt_number = 0
    /\ clock = 0
    /\ calls = <<>>
    /\ result = NoResult
    /\ SelectorOff
    /\ InvokeOff
    /\ world = NoWorld
    /\ tagQueryRoles = FALSE
    /\ pc = "off"
    /\ SweepIdle
    /\ ParseOff
    /\ DiscoverOff
    /\ ProvisionOff
    /\ ChatOff

\* strands_agent_bedrock up to its call of call_agent.
StrandsAgentBedrock ==
    /\ rpc = "idle"
    /\ rpc' = "calling"
    /\ attempt_number' = 1
    /\ UNCHANGED <<payload, clock, calls, result, notRetry>>

\* One attempt: agent(user_input) runs for some time and returns or raises;
\* the decorator returns, raises, or waits and goes to the next attempt.
Attempt ==
    /\ rpc = "calling"
    /\ \E secs \in 0..MaxCallSecs, outcome \in AgentOutcomes :
          LET ended == clock + secs * 1000
              next == AfterAttempt(outcome, ended)
          IN  /\ calls' = Append(calls, [input |-> PayloadGet(payload),
                                         at |-> clock,
                                         ended |-> ended,
                                         outcome |-> outcome])
              /\ clock' = IF next = "retry" THEN ended + wait_fixed ELSE ended
              /\ attempt_number' =
                     IF next = "retry" THEN attempt_number + 1 ELSE attempt_number
              /\ rpc' = CASE next = "retry" -> "calling"
                          [] next = "return" -> "returned"
                          [] next = "raise" -> "raised"
              /\ result' = CASE next = "retry" -> result
                             [] next = "return" -> [ended |-> "returned",
                                                    text |-> outcome.text]
                             [] next = "raise" -> [ended |-> "raised",
                                                   text |-> outcome.text]
    /\ UNCHANGED <<payload, notRetry>>

NextRetry == StrandsAgentBedrock \/ Attempt

SpecRetry == InitRetry /\ [][NextRetry]_vars

----------------------------------------------------------------------------
(* Identifier classification on its own (specification SpecParse):         *)
(* parse_arn applied to an identifier, then every handler's match          *)
(* condition applied to the pair it returned.                              *)

Seqs(A, n) == UNION { [1..k -> A] : k \in 0..n }

RawAlphabet == {Colon, "/", "a"}

TailAlphabet == {"x", Colon, Newline}

Prefixes ==
    { P_guardrail, P_collection, P_knowledgebase, P_function, P_role,
      P_policy, P_table, P_agent }

\* The prefixes, each also without its separator, and no prefix.
Heads == Prefixes \cup { SubSeq(p, 1, Len(p) - 1) : p \in Prefixes } \cup {<<>>}

Services == {S_aoss, S_bedrock, S_s3, S_iam, S_lambda, S_dynamodb, S_sns}

StructuredInputs ==
    { MkArn(svc, h1 \o h2 \o t) :
        svc \in Services, h1 \in Heads, h2 \in Prefixes \cup {<<>>},
        t \in Seqs(TailAlphabet, MaxTailLen) }

\* Well-formed identifiers cut after their first k segments.
ShortInputs ==
    { join(SubSeq(split(MkArn(svc, <<>>)), 1, k)) : svc \in Services, k \in 1..5 }

Inputs == Seqs(RawAlphabet, MaxRawLen) \cup StructuredInputs \cup ShortInputs

InitParse ==
    /\ input \in Inputs
    /\ ppc = "input"
    /\ parsed = IndexError
    /\ fired = {}
    /\ world = NoWorld
    /\ tagQueryRoles = FALSE
    /\ pc = "off"
    /\ SweepIdle
    /\ DiscoverOff
    /\ ProvisionOff
    /\ ChatOff
    /\ ToolsOff

\* service, resource = parse_arn(arn)
DoParse ==
    /\ ppc = "input"
    /\ parsed' = parse_arn(input)
    /\ ppc' = "parsed"
    /\ UNCHANGED <<input, fired, notParse>>

\* action(arn, service, resource) for every handler: which ones issue
\* provider calls.  An IndexError of parse_arn leaves nothing to classify.
DoClassify ==
    /\ ppc = "parsed"
    /\ parsed.err = ""
    /\ fired' = { h \in Handlers :
                    HandlerPlan(h, input, parsed.service, parsed.resource, NoWorld)
                        # <<>> }
    /\ ppc' = "classified"
    /\ UNCHANGED <<input, parsed, notParse>>

NextParse == DoParse \/ DoClassify

SpecParse == InitParse /\ [][NextParse]_vars


----------------------------------------------------------------------------
(* Properties of the sweep.                                                *)

\* The positions of the log that hold a call of operation op.
At(op) == { k \in 1..Len(log) : log[k].op = op }

\* The successful calls of the current sweep that removed something.
EffectfulDeletions == { k \in 1..Len(log) : log[k].res = "ok" /\ Effectful(log[k].op) }

\* C1: an error raised while deleting one resource does not stop the sweep:
\* a sweep that has stopped has returned normally, with every (handler,
\* identifier) pair attempted.
C1_SweepSurvivesErrors ==
    pc \in {"done", "raised"} =>
        pc = "done" /\ Len(invoked) = Len(delete_actions) * Len(arns)

\* C2: handler k has been invoked on every identifier of the list before
\* handler k+1 is invoked on any identifier.
C2_HandlerOuter ==
    \A q \in 1..Len(invoked) :
        invoked[q][1] > 1 =>
            \A a \in 1..Len(arns) :
                \E p \in 1..(q - 1) : invoked[p] = <<invoked[q][1] - 1, a>>

\* C2 witness: a second handler has been invoked on a list of two or more
\* identifiers.
C2_Witness ==
    /\ Len(arns) >= 2
    /\ \E q \in 1..Len(invoked) : invoked[q][1] >= 2

\* Every call of operation first is issued before every call of operation
\* later.
Precedes(first, later) ==
    \A p \in At(first), q \in At(later) : p < q

\* The final deletion call of each kind, in the handler order the claim
\* states: guardrail, collection, knowledge base, bucket, function, role,
\* policy, table, agent.
DeletionCalls ==
    << "delete_guardrail", "delete_collection", "delete_knowledge_base",
       "delete_bucket", "delete_function", "delete_role", "delete_policy",
       "delete_table", "delete_agent" >>

\* C3: within a sweep every guardrail deletion call precedes every
\* knowledge-base deletion call, every knowledge-base deletion every bucket
\* deletion, every function deletion every role deletion and every role
\* deletion every policy deletion; each kind's deletion call is issued in
\* the outer-loop round the stated handler order gives it, and the rounds
\* follow one another in the log.
C3_DeletionOrder ==
    /\ Precedes("delete_guardrail", "delete_knowledge_base")
    /\ Precedes("delete_knowledge_base", "delete_bucket")
    /\ Precedes("delete_function", "delete_role")
    /\ Precedes("delete_role", "delete_policy")
    /\ \A k \in 1..Len(DeletionCalls) :
          \A p \in At(DeletionCalls[k]) : log[p].h = k
    /\ \A p, q \in 1..Len(log) : p < q => log[p].h <= log[q].h

\* C3 witness: a role and a policy have both been deleted in a sweep whose
\* list names the policy before the role.
C3_Witness ==
    \E p \in At("delete_role"), q \in At("delete_policy") :
        /\ log[p].res = "ok"
        /\ log[q].res = "ok"
        /\ log[q].a < log[p].a

\* C4: a 'not found' answer of the provider never ends the sweep with a
\* raise.
C4_NotFoundIsSuccess ==
    (pc = "raised" /\ log # <<>>) => log[Len(log)].res # "NotFound"

\* C5: with no provider fault, a second discovery and sweep deletes nothing
\* and does not raise.
C5_SecondRunIdempotent ==
    (run = 2 /\ started = "discover" /\ faults = 0 /\ pc \in {"done", "raised"})
        => (pc = "done" /\ EffectfulDeletions = {})

\* C6: with no provider fault, the sweep does not raise on an identifier that
\* occurs earlier in the list too.
C6_DuplicateHandled ==
    (pc = "raised" /\ faults = 0 /\ started = "discover")
        => ~ \E a \in 1..(ai - 1) : arns[a] = arns[ai]

----------------------------------------------------------------------------
(* Properties of delete_collection.                                        *)

\* The log positions of the handler call that issued the call at position p.
SameCall(p) == { k \in 1..Len(log) : log[k].h = log[p].h /\ log[k].a = log[p].a }

\* The listing calls delete_collection makes, as <<operation, type>>.
CollectionListings ==
    { <<"list_security_policies", "encryption">>,
      <<"list_security_policies", "network">>,
      <<"list_access_policies", "data">> }

DeleteOf(listop) ==
    IF listop = "list_security_policies" THEN "delete_security_policy"
    ELSE "delete_access_policy"

\* C10: when delete_collection (the provider call) is issued, the same
\* handler call has already listed the encryption, network and data policies
\* of the collection and deleted every policy listed, and within a handler
\* call every security policy deletion precedes every data access policy
\* deletion.
C10_PoliciesBeforeCollection ==
    \A p \in At("delete_collection") :
        /\ \A l \in CollectionListings :
              \E q \in SameCall(p) :
                  /\ q < p
                  /\ log[q].op = l[1]
                  /\ log[q].type = l[2]
                  /\ log[q].res = "ok"
                  /\ \A n \in log[q].listed :
                        \E d \in SameCall(p) :
                            /\ q < d
                            /\ d < p
                            /\ log[d].op = DeleteOf(l[1])
                            /\ log[d].type = l[2]
                            /\ log[d].n = n
                            /\ log[d].res = "ok"
        /\ \A x, y \in SameCall(p) :
              (log[x].op = "delete_security_policy"
               /\ log[y].op = "delete_access_policy") => x < y

\* C10 witness: a collection with an encryption policy, a network policy and
\* two data access policies has been deleted.
C10_Witness ==
    \E p \in At("delete_collection") :
        /\ log[p].res = "ok"
        /\ \E e, n, d1, d2 \in SameCall(p) :
              /\ log[e].op = "delete_security_policy" /\ log[e].type = "encryption"
              /\ log[n].op = "delete_security_policy" /\ log[n].type = "network"
              /\ log[d1].op = "delete_access_policy"
              /\ log[d2].op = "delete_access_policy"
              /\ d1 # d2

----------------------------------------------------------------------------
(* Properties of identifier classification.                                *)

NumSegments(s) == Cardinality({ k \in 1..Len(s) : s[k] = Colon }) + 1

\* The position of the n-th colon of s.
NthColon(s, n) ==
    CHOOSE k \in 1..Len(s) :
        /\ s[k] = Colon
        /\ Cardinality({ m \in 1..k : s[m] = Colon }) = n

\* C7: parse_arn returns no ordinary pair, which the handlers then
\* classify, for an identifier of fewer than 6 segments.
C7_ShortRejected ==
    (ppc = "classified" /\ NumSegments(input) < 6) => parsed.err # ""

\* C8: for an identifier of 6 segments or more, the service is the text
\* between the second and the third colon, the resource is the text after
\* the fifth colon, verbatim, and the first five segments joined with the
\* resource by ':' are the identifier.
C8_ParseArn ==
    (ppc # "input" /\ NumSegments(input) >= 6) =>
        /\ parsed.err = ""
        /\ parsed.service =
              SubSeq(input, NthColon(input, 2) + 1, NthColon(input, 3) - 1)
        /\ parsed.resource = SubSeq(input, NthColon(input, 5) + 1, Len(input))
        /\ SubSeq(input, 1, NthColon(input, 5)) \o parsed.resource = input

\* C8 witness: an identifier whose resource holds a colon and a slash has
\* been parsed.
C8_Witness ==
    /\ ppc = "parsed"
    /\ NumSegments(input) >= 7
    /\ \E k \in 1..Len(parsed.resource) : parsed.resource[k] = Colon
    /\ \E k \in 1..Len(parsed.resource) : parsed.resource[k] = "/"

\* C9: at most one of the nine handlers issues provider calls for a
\* (service, resource-path) pair.
C9_MutuallyExclusive ==
    ppc = "classified" => Cardinality(fired) <= 1

\* C9 witness: exactly one handler fired for a resource path that carries a
\* second handler's prefix after the first.
C9_Witness ==
    /\ ppc = "classified"
    /\ fired = {"delete_policy"}
    /\ StartsWith(parsed.resource, P_policy \o P_role)

----------------------------------------------------------------------------
(* Properties of the handlers with sub-resources.                          *)

\* The successful calls of operation op, for sub-resource n, that the handler
\* call of position p issued before p.
DoneBefore(p, op, n) ==
    { d \in SameCall(p) :
        d < p /\ log[d].op = op /\ log[d].n = n /\ log[d].res = "ok" }

\* C11: the call just before every delete_data_source is the successful
\* update_data_source of the same data source, in the same handler call,
\* that sets its deletion policy to RETAIN; and when delete_knowledge_base
\* is issued, the same handler call has listed the data sources and updated
\* and deleted every one listed.
C11_RetainBeforeDelete ==
    /\ \A d \in At("delete_data_source") :
          /\ d > 1
          /\ (d - 1) \in SameCall(d)
          /\ log[d - 1].op = "update_data_source"
          /\ log[d - 1].type = "RETAIN"
          /\ log[d - 1].id = log[d].id
          /\ log[d - 1].n = log[d].n
          /\ log[d - 1].res = "ok"
    /\ \A p \in At("delete_knowledge_base") :
          \E q \in SameCall(p) :
              /\ q < p
              /\ log[q].op = "list_data_sources"
              /\ log[q].res = "ok"
              /\ \A n \in log[q].listed :
                    \E u \in DoneBefore(p, "update_data_source", n),
                       d \in DoneBefore(p, "delete_data_source", n) :
                        /\ q < u
                        /\ u < d

\* C11 witness: a knowledge base with two data sources has been deleted.
C11_Witness ==
    \E p \in At("delete_knowledge_base") :
        /\ log[p].res = "ok"
        /\ \E d1, d2 \in DoneBefore(p, "delete_data_source", 1)
                          \cup DoneBefore(p, "delete_data_source", 2) : d1 # d2

\* C12: when delete_bucket (the provider call) is issued, the same handler
\* call has read every page of the bucket's object listing and, for every
\* page that held objects, batch-deleted them right after reading it; a
\* batch delete is only ever issued right after a page that held objects.
C12_PagesEmptiedFirst ==
    /\ \A p \in At("delete_bucket") :
          \A n \in 1..NumPages(world, log[p].id) :
              \E q \in SameCall(p) :
                  /\ q < p
                  /\ log[q].op = "list_objects_v2"
                  /\ log[q].n = n
                  /\ log[q].res = "ok"
                  /\ log[q].listed # {} =>
                        /\ q + 1 < p
                        /\ log[q + 1].op = "delete_objects"
                        /\ log[q + 1].n = n
                        /\ log[q + 1].res = "ok"
    /\ \A d \in At("delete_objects") :
          /\ d > 1
          /\ (d - 1) \in SameCall(d)
          /\ log[d - 1].op = "list_objects_v2"
          /\ log[d - 1].n = log[d].n
          /\ log[d - 1].listed # {}

\* C12 witness: a bucket whose listing has more than one page, the last of
\* them with objects, has been emptied and deleted.
C12_Witness ==
    \E p \in At("delete_bucket") :
        /\ log[p].res = "ok"
        /\ NumPages(world, log[p].id) > 1
        /\ DoneBefore(p, "delete_objects", NumPages(world, log[p].id)) # {}

\* C12 witness, second case: a page without objects has been read and the
\* bucket deleted.
C12_WitnessEmptyPage ==
    \E p \in At("delete_bucket"), q \in At("list_objects_v2") :
        /\ log[p].res = "ok"
        /\ q \in SameCall(p)
        /\ log[q].res = "ok"
        /\ log[q].listed = {}

\* The calls of the instance-profile step of delete_roles.
ProfileStep == {"list_instance_profiles_for_role", "remove_role_from_instance_profile"}

C14_VersionsBeforePolicy ==
    /\ \A p \in At("delete_policy") :
          \E q \in SameCall(p) :
              /\ q < p
              /\ log[q].op = "list_policy_versions"
              /\ log[q].res = "ok"
              /\ \A n \in log[q].listed \ {DefaultVersion} :
                    \E d \in DoneBefore(p, "delete_policy_version", n) : q < d
    /\ \A d \in At("delete_policy_version") : log[d].n # DefaultVersion

\* C14 witness: a policy with its default version and two other versions
\* has been deleted.
C14_Witness ==
    \E p \in At("delete_policy"), q \in At("list_policy_versions") :
        /\ log[p].res = "ok"
        /\ q \in SameCall(p)
        /\ DefaultVersion \in log[q].listed
        /\ Cardinality(log[q].listed) >= 3
        /\ Cardinality({ d \in SameCall(p) :
                            log[d].op = "delete_policy_version"
                            /\ log[d].res = "ok" }) >= 2

----------------------------------------------------------------------------
(* Properties of the handlers without sub-resources.                       *)

\* The provider call that deletes the resource of a single-call handler.
SingleCallOf(h) ==
    CASE h = "delete_function" -> "delete_function"
      [] h = "delete_table" -> "delete_table"
      [] h = "delete_agent" -> "delete_agent"

SingleCallPrefix(h) ==
    CASE h = "delete_function" -> P_function
      [] h = "delete_table" -> P_table
      [] h = "delete_agent" -> P_agent

\* The log positions of the q-th handler call of the sweep.
CallsOf(q) ==
    { k \in 1..Len(log) : log[k].h = invoked[q][1] /\ log[k].a = invoked[q][2] }

\* C18: a call of the function, table or agent handler on an identifier it
\* matches has issued exactly one provider call: the delete of that
\* resource, named by the text after the handler's prefix.
C18_SingleCallDeletes ==
    \A q \in 1..Len(invoked) :
        LET h == delete_actions[invoked[q][1]]
            parsedArn == parse_arn(arns[invoked[q][2]])
        IN (/\ h \in {"delete_function", "delete_table", "delete_agent"}
            /\ parsedArn.err = ""
            /\ Matches(h, parsedArn.service, parsedArn.resource))
           => /\ Cardinality(CallsOf(q)) = 1
              /\ \A k \in CallsOf(q) :
                    /\ log[k].op = SingleCallOf(h)
                    /\ SingleCallPrefix(h) \o log[k].id = parsedArn.resource

\* C18 witness: a function and a table have both been deleted in one sweep.
C18_Witness ==
    \E f \in At("delete_function"), t \in At("delete_table") :
        log[f].res = "ok" /\ log[t].res = "ok"

----------------------------------------------------------------------------
(* Properties of discovery.                                                *)

\* The identifiers of a list, as a set.
Elems(seq) == { seq[k] : k \in 1..Len(seq) }

\* The resources the tag query covers that carry the tag.
TaggedGeneric == { i \in DOMAIN dTagged : Tag(TagName, TagValue) \in dTagged[i] }

\* The roles whose own tag list holds the tag.
TaggedRoles == { i \in DOMAIN dRoles : Tag(TagName, TagValue) \in dRoles[i] }

\* C16: when no query fails, the list get_tagged_resources returns holds
\* every identifier the tag query reports for the tag and the identifier of
\* every role whose own tag list holds a tag with that key and that value,
\* each once and nothing else; a role whose tag list lacks the pair is not in
\* it.
C16_ExactResult ==
    (dpc # "ready" /\ dFail = NoFail) =>
        /\ dpc = "returned"
        /\ Elems(dOut.resources) =
              { GenericArn(i) : i \in TaggedGeneric }
              \cup { RoleArn(i) : i \in TaggedRoles }
        /\ Len(dOut.resources) =
              Cardinality(TaggedGeneric) + Cardinality(TaggedRoles)
        /\ \A i \in DOMAIN dRoles \ TaggedRoles :
              RoleArn(i) \notin Elems(dOut.resources)

\* C16 witness: discovery without a failure has returned identifiers from
\* two pages of the tag query and a role from a second page of list_roles,
\* and has left out a role that carries the key with another value.
C16_Witness ==
    /\ dpc = "returned"
    /\ dFail = NoFail
    /\ dPageSize = 1
    /\ Cardinality(TaggedGeneric) >= 2
    /\ Len(dRoles) >= 2
    /\ Tag(TagName, OtherValue) \in dRoles[1]
    /\ 2 \in TaggedRoles
    /\ RoleArn(2) \in Elems(dOut.resources)

\* The identifiers of the tag query that get_tagged_resources returned.
ReturnedGeneric == { i \in DOMAIN dTagged : GenericArn(i) \in Elems(dOut.resources) }

\* The roles that get_tagged_resources returned.
ReturnedRoles == { i \in DOMAIN dRoles : RoleArn(i) \in Elems(dOut.resources) }

\* C15, first part: no exception leaves get_tagged_resources, and an error
\* of a source is printed.
C15_NoExceptionLeaves ==
    dpc # "ready" =>
        /\ dpc = "returned"
        /\ dFail.tag # NoFailure => E_tagged \in dOut.printed
        /\ dFail.role # NoFailure => E_roles \in dOut.printed

\* C15, second part: a source one of whose requests failed contributes no
\* identifier to the list returned.
C15_FailedSourceEmpty ==
    dpc = "returned" =>
        /\ dFail.tag # NoFailure => ReturnedGeneric = {}
        /\ dFail.role # NoFailure => ReturnedRoles = {}

\* C15: get_tagged_resources never aborts: with a query error in one of the
\* two sources it returns, the error is printed, the failed source
\* contributes no identifier and the other source contributes every
\* identifier it has.
C15_NeverAborts ==
    dpc # "ready" =>
        /\ dpc = "returned"
        /\ dFail.tag # NoFailure =>
              (E_tagged \in dOut.printed /\ ReturnedGeneric = {})
        /\ dFail.role # NoFailure =>
              (E_roles \in dOut.printed /\ ReturnedRoles = {})
        /\ dFail.tag = NoFailure => ReturnedGeneric = TaggedGeneric
        /\ dFail.role = NoFailure => ReturnedRoles = TaggedRoles

\* What the code does on a ClientError: the failed source contributes what
\* its loop had appended before the failed request, the other source
\* everything it has.
C15_ClientErrorKeepsEarlierPages ==
    (dpc # "ready" /\ dFail.tag.kind # "Other" /\ dFail.role.kind # "Other") =>
        /\ dpc = "returned"
        /\ (E_tagged \in dOut.printed) <=> (dFail.tag # NoFailure)
        /\ (E_roles \in dOut.printed) <=> (dFail.role # NoFailure)
        /\ ReturnedGeneric =
              { i \in TaggedGeneric :
                    \/ dFail.tag = NoFailure
                    \/ Cardinality({ j \in TaggedGeneric : j <= i })
                          <= (dFail.tag.at - 1) * dPageSize }
        /\ ReturnedRoles =
              { i \in TaggedRoles :
                    \/ dFail.role = NoFailure
                    \/ i + ((i - 1) \div dPageSize) + 1 < dFail.role.at }

----------------------------------------------------------------------------
(* Properties of agent provisioning.                                       *)

\* C17: a create-or-get helper that returns hands back a descriptor with the
\* fields the response of create has, on the created and on the fetched
\* path alike, and the fields read afterwards are there and name the
\* resource: FunctionArn of the function, ['Role']['Arn'] of the role, and
\* ['Policy']['Arn'] of the policy, which the helper has attached to the
\* role under that identifier.
C17_SameShape ==
    \A agent_name \in AgentNames :
        /\ (ret.fn = "create_lambda" /\ ret.err = "") =>
              /\ DOMAIN ret.value =
                    DOMAIN Response(Req("create_function", LambdaName(agent_name), ""))
              /\ "FunctionArn" \in DOMAIN ret.value
              /\ ret.value.FunctionArn = FunctionArnOf(LambdaName(agent_name))
        /\ (ret.fn = "create_lambda_role" /\ ret.err = "") =>
              /\ DOMAIN ret.value =
                    DOMAIN Response(Req("create_role", LambdaRoleName(agent_name), ""))
              /\ HasPath(ret.value, "Role", "Arn")
              /\ ret.value.Role.Arn = RoleArnOf(LambdaRoleName(agent_name))
              /\ DOMAIN ret.used =
                    DOMAIN Response(Req("create_policy", DynamoPolicyName(agent_name), ""))
              /\ HasPath(ret.used, "Policy", "Arn")
              /\ ret.used.Policy.Arn = PolicyArnOf(DynamoPolicyName(agent_name))
              /\ <<LambdaRoleName(agent_name), ret.used.Policy.Arn>> \in iam.attached

\* C17 witness: create_lambda has returned the descriptor of a function
\* that already existed.
C17_Witness ==
    /\ ret.fn = "create_lambda"
    /\ ret.err = ""
    /\ "function fetched" \in ret.path

\* C17 witness, second case: create_lambda_role has returned with the role
\* and the policy both fetched.
C17_WitnessRole ==
    /\ ret.fn = "create_lambda_role"
    /\ ret.err = ""
    /\ ret.path = {"role fetched", "policy fetched"}

\* C20: no call of create_agent_role ends with an already-exists fault,
\* whatever earlier calls, complete or cut short, have left in the account.
C20_RerunNeverAlreadyExists ==
    ret.fn = "create_agent_role" => ret.err # "EntityAlreadyExists"

\* What does hold: create_agent_role does not end with an already-exists
\* fault when the policy, if it exists, is attached to the agent role.
C20_AttachedLeftoverRemoved ==
    [][\A agent_name \in AgentNames :
         (/\ CreateAgentRole
          /\ AgentPolicyName(agent_name) \in iam.policies =>
                <<AgentRoleName(agent_name), PolicyArnOf(AgentPolicyName(agent_name))>>
                    \in iam.attached)
         => ret'.err # "EntityAlreadyExists"]_vars

----------------------------------------------------------------------------
(* Properties of the chatbot session.                                      *)

\* C19: when a prompt is processed, st.session_state.agent is an agent, not
\* None, and it was built for the model the selectbox shows.
C19_AgentReadyForPrompt ==
    lastPrompt.seen =>
        /\ ~lastPrompt.agent.isNone
        /\ lastPrompt.agent.model = lastPrompt.selected

\* C19, first part only: the agent is not None when a prompt is processed.
C19_AgentNotNone ==
    lastPrompt.seen => ~lastPrompt.agent.isNone

----------------------------------------------------------------------------
(* Properties of the model selectors.                                      *)

\* The default model id the convenience function f names.
BuiltinOf(f) ==
    CASE f = "text" -> BuiltinText
      [] f = "embeddings" -> BuiltinEmbedding
      [] f = "image" -> BuiltinImage
      [] f = "video" -> BuiltinVideo

\* C23: a selector built by one of the four convenience functions with no
\* default argument has, until its dropdown changes, the default model id
\* named in that function as its selected model, and its selected model is
\* at all times a key of the model table of its type.
C23_BuiltinDefaultSelected ==
    sel.made =>
        /\ HasKey(available_models(sel.fn), get_model_id(sel.obj))
        /\ (sel.default = None /\ ~sel.changed)
               => get_model_id(sel.obj) = BuiltinOf(sel.fn)

\* C23, second half alone: the selected model of a built selector is a key
\* of the model table of its type, whatever default it was given and
\* whatever the dropdown changed to.
C23_SelectedIsKeyOfTable ==
    sel.made =>
        /\ HasKey(available_models(sel.fn), get_model_id(sel.obj))
        /\ sel.obj.value = sel.obj.selected_model
        /\ sel.obj.info # "KeyError"

\* C23, first half for the text and embedding selectors: built with no
\* default, they start on the id their function names.
C23_TextAndEmbeddingDefault ==
    (sel.made /\ sel.fn \in {"text", "embeddings"} /\ sel.default = None
        /\ ~sel.changed)
        => get_model_id(sel.obj) = BuiltinOf(sel.fn)

----------------------------------------------------------------------------
(* Properties of invoke_agent_helper.                                      *)

IsChunk(x) == x.raises = "" /\ "chunk" \in x.keys
IsTrace(x) == x.raises = "" /\ "trace" \in x.keys /\ "chunk" \notin x.keys
IsNeither(x) == x.raises = "" /\ "chunk" \notin x.keys /\ "trace" \notin x.keys
IsThrottling(x) ==
    x.raises = "EventStreamError" /\ Contains(x.text, L_throttlingException)

\* The position of the stream's first item that is not a trace event (0 when
\* the stream has only trace events).
FirstOther ==
    IF \E i \in 1..Len(stream) : ~IsTrace(stream[i])
    THEN CHOOSE i \in 1..Len(stream) :
             /\ ~IsTrace(stream[i])
             /\ \A j \in 1..(i - 1) : IsTrace(stream[j])
    ELSE 0

\* The call got its stream: invoke_agent itself did not raise.
Streamed == ipc = "done" /\ answer.type # "ClientError"

\* C21: invoke_agent_helper returns the decoded text of the stream's first
\* chunk event and reads no item after it; the trace events before it do not
\* end the call; an event that is neither chunk nor trace ends the call with
\* the exception 'unexpected event.'; an EventStreamError that mentions
\* throttlingException ends it with the exception 'Throttling occured, ...'
\* and not with 'unexpected event.'.
C21_FirstChunkAnswer ==
    Streamed =>
        /\ \A j \in 1..(answer.read - 1) : IsTrace(stream[j])
        /\ (FirstOther # 0 /\ IsChunk(stream[FirstOther])
                /\ decode_utf8(stream[FirstOther].bytes).ok)
              => /\ answer.ended = "returned"
                 /\ ~answer.value.none
                 /\ answer.value.text = decode_utf8(stream[FirstOther].bytes).text
                 /\ answer.read = FirstOther
        /\ (answer.ended = "returned" /\ ~answer.value.none)
              => /\ FirstOther # 0
                 /\ IsChunk(stream[FirstOther])
                 /\ answer.value.text = decode_utf8(stream[FirstOther].bytes).text
                 /\ answer.read = FirstOther
        /\ (FirstOther # 0 /\ IsNeither(stream[FirstOther]))
              => /\ answer.ended = "raised"
                 /\ answer.type = "Exception"
                 /\ answer.msg = M_unexpected
                 /\ answer.read = FirstOther
        /\ (FirstOther # 0 /\ IsThrottling(stream[FirstOther]))
              => /\ answer.ended = "raised"
                 /\ answer.type = "Exception"
                 /\ answer.msg = M_throttling
                 /\ answer.msg # M_unexpected

\* A call that returned the two-byte character of a chunk that came after
\* two trace events and was followed by another chunk.
C21_Witness ==
    /\ Streamed
    /\ FirstOther = 3
    /\ IsChunk(stream[3])
    /\ Len(stream) > 3
    /\ IsChunk(stream[4])
    /\ stream[4].bytes # stream[3].bytes
    /\ answer.ended = "returned"
    /\ answer.value.text = <<233>>
    /\ answer.read = 3

\* A call whose stream raised a throttling EventStreamError after a trace.
C21_WitnessThrottling ==
    /\ Streamed
    /\ FirstOther = 2
    /\ IsThrottling(stream[2])
    /\ answer.msg = M_throttling

\* A call ended by an event that is neither chunk nor trace.
C21_WitnessUnexpected ==
    /\ Streamed
    /\ FirstOther = 2
    /\ IsNeither(stream[2])
    /\ answer.msg = M_unexpected

\* What the claim leaves open: a stream of trace events only returns None
\* after reading them all; a chunk whose bytes are not UTF-8 ends the call
\* with 'unexpected event.'; an EventStreamError that does not mention
\* throttlingException (in that spelling) is raised again as it is; any
\* other exception of the stream ends the call with 'unexpected event.'.
C21_OtherEndings ==
    Streamed =>
        /\ FirstOther = 0
              => answer = Returned(NoText, Len(stream), answer.logged)
        /\ (FirstOther # 0 /\ IsChunk(stream[FirstOther])
                /\ ~decode_utf8(stream[FirstOther].bytes).ok)
              => answer.ended = "raised" /\ answer.msg = M_unexpected
        /\ (FirstOther # 0 /\ stream[FirstOther].raises = "EventStreamError"
                /\ ~IsThrottling(stream[FirstOther]))
              => answer.ended = "raised" /\ answer.type = "EventStreamError"
        /\ (FirstOther # 0
                /\ stream[FirstOther].raises \notin {"", "EventStreamError"})
              => answer.ended = "raised" /\ answer.msg = M_unexpected

----------------------------------------------------------------------------
(* Properties of the agent runtime entrypoint.                             *)

Throttled(c) == c.outcome.raised /\ Contains(c.outcome.text, L_throttl)
OtherException(c) == c.outcome.raised /\ ~Contains(c.outcome.text, L_throttl)

\* The most attempts the wait and the stop delay leave room for.
AttemptLimit == stop_max_delay \div wait_fixed + 1

\* C22: call_agent invokes the agent again only after an exception whose
\* text contains 'throttl'; any other exception is raised to the caller by
\* the attempt it occurred in, with no further invocation; after a
\* throttling exception the agent is invoked again with the same input five
\* seconds later, until an attempt returns or thirty seconds have passed
\* since the first attempt started; so the number of attempts is bounded.
C22_RetriesOnlyThrottling ==
    /\ \A i \in 1..Len(calls) :
          /\ calls[i].input = PayloadGet(payload)
          /\ i < Len(calls) =>
                /\ Throttled(calls[i])
                /\ calls[i].ended < stop_max_delay
                /\ calls[i + 1].at = calls[i].ended + wait_fixed
          /\ OtherException(calls[i]) =>
                /\ i = Len(calls)
                /\ rpc = "raised"
                /\ result = [ended |-> "raised", text |-> calls[i].outcome.text]
          /\ ~calls[i].outcome.raised =>
                /\ i = Len(calls)
                /\ rpc = "returned"
                /\ result = [ended |-> "returned", text |-> calls[i].outcome.text]
          /\ (i = Len(calls) /\ Throttled(calls[i])) =>
                IF calls[i].ended < stop_max_delay
                THEN rpc = "calling" /\ clock = calls[i].ended + wait_fixed
                ELSE /\ rpc = "raised"
                     /\ result = [ended |-> "raised", text |-> calls[i].outcome.text]
    /\ Len(calls) <= AttemptLimit
    /\ attempt_number <= AttemptLimit
    /\ rpc \in {"returned", "raised"} => attempt_number = Len(calls)
    /\ rpc = "calling" => attempt_number = Len(calls) + 1

\* An invocation that returned at its third attempt, after two throttling
\* exceptions.
C22_Witness ==
    /\ rpc = "returned"
    /\ Len(calls) = 3
    /\ Throttled(calls[1])
    /\ Throttled(calls[2])
    /\ payload.has
    /\ result.text = ResponseText

\* An invocation that gave up: throttled at every attempt until thirty
\* seconds had passed.
C22_WitnessGaveUp ==
    /\ rpc = "raised"
    /\ Len(calls) = AttemptLimit
    /\ Throttled(calls[Len(calls)])

\* An invocation ended at its second attempt by an exception that is not a
\* throttling one by the test, though it names throttling.
C22_WitnessOther ==
    /\ rpc = "raised"
    /\ Len(calls) = 2
    /\ OtherException(calls[2])
    /\ calls[2].outcome.text = <<"T", "h", "r", "o", "t", "t", "l", "i", "n", "g", "E", "x", "c", "e", "p", "t", "i", "o", "n">>

========================================================================
